---- MODULE Spec2Model ----
(***************************************************************************)
(* Marketplace synchronisation pipeline of the Vintage Jeans Marketplace   *)
(* backend: the per-platform Celery sync tasks and their job rows          *)
(* (tasks/marketplace_tasks.py), the fan-out task, and the upsert loop of  *)
(* the three adapters (research/services/marketplace/*_service.py).        *)
(*                                                                         *)
(* Spec      the sync tasks, their retries, the job rows and the fan-out   *)
(* SpecSave  two sync_listings runs saving concurrently, step by step      *)
(* SpecSeq   the same runs, one after the other                            *)
(* SpecPool  the sync tasks and the fan-out on a pool of worker processes  *)
(* SpecTrend two generate_daily_trends runs, one after the other           *)
(* SpecFetch one sync task from the vendor's answer to the job row         *)
(* SpecTrigger  the trigger_sync handler and the broker's queue            *)
(* SpecEnrich   analyze_listing_with_ai on an ingested listing             *)
(* SpecScore    the engagement score of a Reddit submission                *)
(* SpecPrice    the price extracted from the text of a Reddit post         *)
(* SpecShop     the listing router's requests of sellers, one at a time    *)
(* SpecModeration  creation, update, deletion, approval and rejection      *)
(* SpecShopRace create and delete requests on two connections              *)
(* SpecBlog     the blog router                                             *)
(*                                                                         *)
(* A store call (.execute()) is atomic: it either takes effect and         *)
(* returns, or raises and leaves the table as it was.                      *)
(***************************************************************************)
EXTENDS Integers, Sequences, FiniteSets, TLC

VARIABLES
    marketplace_sync_jobs,  \* table: the set of job rows
    state,                  \* Celery state of each per-platform task
    pc,                     \* position of each per-platform task in its body
    retries,                \* self.request.retries of each task
    job_id,                 \* local variable job_id of the running attempt
    stats,                  \* local variable stats / the task's return value
    exc,                    \* exception caught or raised by the attempt
    trigger,                \* who enqueued the task: single trigger or group
    pstate,                 \* Celery state of sync_all_marketplaces_task
    combined_stats,         \* return value of sync_all_marketplaces_task
    pexc,                   \* exception raised out of the fan-out task
    marketplace_listings,   \* table: the set of listing rows
    spc,                    \* position of each sync_listings run
    splatform,              \* adapter of each run
    listings,               \* the parsed batch each run saves
    sidx,                   \* loop index of each run into its batch
    existing,               \* local variable existing.data of each run
    counts,                 \* local counters added / updated / errors
    sresult,                \* return value of each sync_listings run
    workers,                \* processes of the worker pool (0: not started)
    marketplace_trends,     \* table: the set of trend rows
    tpc,                    \* position of each generate_daily_trends run
    twindow,                \* local variable listings of each run
    tend,                   \* local variable end_date of each run (0: not read)
    tsaves,                 \* the _save_trend_record calls of each run, in order
    tidx,                   \* the call the run has reached
    texisting,              \* local variable existing.data of the call
    tlog,                   \* logger.error calls of _save_trend_record
    tresult,                \* return value of each run
    fpc,                    \* position of the adapter's fetch
    response,               \* what the vendor answered to the fetch
    fetched,                \* return value of the fetch: the external ids parsed
    queue,                  \* broker: the tasks sent and not yet taken by a worker
    requests,               \* calls of trigger_sync handled so far
    http,                   \* the request and the response of the last call
    listing_columns,        \* table marketplace_listings: the columns enrichment uses
    apc,                    \* position of analyze_listing_with_ai
    aconfig,                \* environment of the task and listing_id of the call
    alisting,               \* local variable listing
    ai_answer,              \* local variable ai_data
    aupdate_data,           \* local variable update_data
    aresult,                \* return value, or the exception the task raised
    submission,             \* Reddit submission being parsed: score, num_comments
    engagement,             \* its engagement score, in hundredths
    ptext,                  \* text a price is extracted from
    extracted,              \* return value of _extract_price, None as NoStats
    sellers,                \* table sellers
    shop_listings,          \* table listings
    created,                \* rows inserted into listings so far: the last id
    handler,                \* the request each connection is handling
    reply,                  \* the last response sent
    blog_posts,             \* table blog_posts
    posted,                 \* rows inserted into blog_posts so far: the last id
    blog_reply              \* the last response of a blog endpoint

jobVars  == <<marketplace_sync_jobs, state, pc, retries, job_id, stats, exc,
              trigger, pstate, combined_stats, pexc>>
saveVars == <<marketplace_listings, spc, splatform, listings, sidx, existing,
              counts, sresult>>
poolVars == <<workers>>
trendVars == <<marketplace_trends, tpc, twindow, tend, tsaves, tidx,
               texisting, tlog, tresult>>
vars     == <<marketplace_sync_jobs, state, pc, retries, job_id, stats, exc,
              trigger, pstate, combined_stats, pexc,
              marketplace_listings, spc, splatform, listings, sidx, existing,
              counts, sresult, workers,
              marketplace_trends, tpc, twindow, tend, tsaves, tidx,
              texisting, tlog, tresult,
              fpc, response, fetched,
              queue, requests, http,
              listing_columns, apc, aconfig, alisting, ai_answer, aupdate_data,
              aresult,
              submission, engagement, ptext, extracted,
              sellers, shop_listings, created, handler, reply,
              blog_posts, posted, blog_reply>>

redditVars == <<submission, engagement, ptext, extracted>>
shopVars == <<sellers, shop_listings, created, handler, reply>>
blogVars == <<blog_posts, posted, blog_reply>>
fetchVars == <<fpc, response, fetched>>
routerVars == <<queue, requests, http>>
enrichVars == <<listing_columns, apc, aconfig, alisting, ai_answer, aupdate_data,
              aresult>>

\* what the sync tasks leave alone, and what the upsert loop leaves alone
nonJobVars  == <<saveVars, poolVars, trendVars, fetchVars, routerVars,
                 enrichVars, redditVars, shopVars, blogVars>>
nonSaveVars == <<jobVars, poolVars, trendVars, fetchVars, routerVars,
                 enrichVars, redditVars, shopVars, blogVars>>

\* the pipeline's variables, which the routers of the shop leave alone
coreVars == <<jobVars, saveVars, poolVars, trendVars, fetchVars, routerVars,
              enrichVars>>

----------------------------------------------------------------------------
(* Bounds *)

MaxFetched == 1     \* most listings one task-level sync reports
MaxBatch == 2       \* most listings in one saved batch
MaxExternalId == 1  \* external ids a vendor can return: 1..MaxExternalId
MaxWorkers == 2     \* largest worker pool: 1..MaxWorkers processes
MaxWindow == 2      \* most listings in one trend window
MaxRequests == 3    \* most calls of trigger_sync in one behaviour
MaxClock == 3       \* latest time stamp a sync writes to a listing
MaxScore == 102     \* highest vote score of a submission
MaxDownvotes == 3   \* lowest vote score of a submission: -MaxDownvotes
MaxComments == 52   \* most comments of a submission
MaxPieces == 5      \* most pieces of a text
MaxListings == 2    \* most listings created in one behaviour
MaxViews == 1       \* most views counted on one listing
MaxActive == 2      \* largest active_listings an approval starts from, plus one
MaxPosts == 2       \* most blog posts created in one behaviour

(* Program constants *)

max_retries == 3
SUBREDDITS_MONITORED == 8

Platforms == {"ebay", "etsy", "reddit"}

\* local variable job_id: not yet assigned (the insert has not returned)
Unbound == <<"unbound", 0>>

\* a null column
Null == 0 - 1

\* the connections on which the shop's routers serve requests, and a
\* connection that is serving none
Connections == {1, 2}

Idle == [op |-> "idle"]

\* a null text column, an unset environment variable
None == "None"

NoStats == [none |-> TRUE]
NoExc == "none"

----------------------------------------------------------------------------
(* Helpers *)

Get(d, k, default) == IF k \in DOMAIN d THEN d[k] ELSE default

\* the key under which an adapter's sync reports what it fetched
FoundKey(p) == IF p = "reddit" THEN "posts_found" ELSE "listings_found"

\* the dictionary sync_listings returns
SyncResult(p, c, found) ==
    IF p = "reddit"
    THEN [added |-> c.added, updated |-> c.updated, errors |-> c.errors,
          posts_found |-> found, subreddits_monitored |-> SUBREDDITS_MONITORED]
    ELSE [added |-> c.added, updated |-> c.updated, errors |-> c.errors,
          listings_found |-> found]

\* every dictionary a sync of at most MaxFetched listings can return
SyncStats(p) ==
    { SyncResult(p, [added |-> a, updated |-> u, errors |-> e], a + u + e) :
        <<a, u, e>> \in { x \in (0..MaxFetched) \X (0..MaxFetched) \X (0..MaxFetched) :
                            x[1] + x[2] + x[3] <= MaxFetched } }

\* the rows of one task, whatever the attempt
JobsOf(t) == { r \in marketplace_sync_jobs : r.celery_task_id = t }

job_data(t) ==
    [platform |-> t, job_type |-> "incremental_sync", status |-> "running",
     celery_task_id |-> t]

\* the row the store creates for job_data: it assigns a fresh id (rows are
\* never deleted by the sync tasks, so a serial number per task is fresh)
\* and leaves the other columns null. Column attempt is not a column of the
\* table: it records self.request.retries of the inserting attempt.
InsertedJob(t) ==
    [id |-> <<t, Cardinality(JobsOf(t)) + 1>>,
     platform |-> job_data(t).platform,
     job_type |-> job_data(t).job_type,
     status |-> job_data(t).status,
     celery_task_id |-> job_data(t).celery_task_id,
     attempt |-> retries[t],
     error_message |-> NoExc,
     listings_processed |-> Null, listings_added |-> Null,
     listings_updated |-> Null]

update_data(st, t) ==
    [status |-> "completed",
     listings_processed |-> Get(st, FoundKey(t), 0),
     listings_added |-> Get(st, "added", 0),
     listings_updated |-> Get(st, "updated", 0)]

error_data(e) ==
    [status |-> "failed", error_message |-> e]

\* table.update(data).eq("id", id): the columns named in data are written
Patch(row, data) ==
    [k \in DOMAIN row |-> IF k \in DOMAIN data THEN data[k] ELSE row[k]]

\* mutant: the update is filtered on celery_task_id instead of id
UpdateJob_ByTask(table, id, data) ==
    { IF r.celery_task_id = id[1] THEN Patch(r, data) ELSE r : r \in table }

UpdateJob(table, id, data) ==
    { IF r.id = id THEN Patch(r, data) ELSE r : r \in table }

\* the except block's 'if job_id:' on a job_id that may never have been bound
ExceptWithJobId(j) == IF j = Unbound THEN "UnboundLocalError" ELSE "Exception"

\* Task.retry: a retry is sent while request.retries < max_retries,
\* otherwise the exception is re-raised
CanRetry(r) == r < max_retries

----------------------------------------------------------------------------
Init ==
    /\ marketplace_sync_jobs = {}
    /\ state = [t \in Platforms |-> "idle"]
    /\ pc = [t \in Platforms |-> "none"]
    /\ retries = [t \in Platforms |-> 0]
    /\ job_id = [t \in Platforms |-> Unbound]
    /\ stats = [t \in Platforms |-> NoStats]
    /\ exc = [t \in Platforms |-> NoExc]
    /\ trigger = [t \in Platforms |-> "none"]
    /\ pstate = "idle"
    /\ combined_stats = NoStats
    /\ pexc = NoExc
    /\ marketplace_listings = {}
    /\ spc = [s \in {1, 2} |-> "idle"]
    /\ splatform = [s \in {1, 2} |-> "ebay"]
    /\ listings = [s \in {1, 2} |-> << >>]
    /\ sidx = [s \in {1, 2} |-> 1]
    /\ existing = [s \in {1, 2} |-> {}]
    /\ counts = [s \in {1, 2} |-> [added |-> 0, updated |-> 0, errors |-> 0]]
    /\ sresult = [s \in {1, 2} |-> NoStats]
    /\ workers = 0
    /\ marketplace_trends = {}
    /\ tpc = [r \in {1, 2} |-> "idle"]
    /\ twindow = [r \in {1, 2} |-> << >>]
    /\ tend = [r \in {1, 2} |-> 0]
    /\ tsaves = [r \in {1, 2} |-> << >>]
    /\ tidx = [r \in {1, 2} |-> 1]
    /\ texisting = [r \in {1, 2} |-> {}]
    /\ tlog = [r \in {1, 2} |-> 0]
    /\ tresult = [r \in {1, 2} |-> NoStats]
    /\ fpc = "idle"
    /\ response = [failure |-> "none", items |-> << >>]
    /\ fetched = << >>
    /\ queue = << >>
    /\ requests = 0
    /\ http = NoStats
    /\ listing_columns = {}
    /\ apc = "idle"
    /\ aconfig = NoStats
    /\ alisting = NoStats
    /\ ai_answer = NoStats
    /\ aupdate_data = NoStats
    /\ aresult = NoStats
    /\ submission = NoStats
    /\ engagement = Null
    /\ ptext = << >>
    /\ extracted = NoStats
    /\ sellers = [s \in {"s1", "s2", "admin"} |->
                    [id |-> s, role |-> IF s = "admin" THEN "admin" ELSE "seller",
                     total_listings |-> 0, active_listings |-> 0]]
    /\ shop_listings = {}
    /\ created = 0
    /\ handler = [q \in Connections |-> Idle]
    /\ reply = NoStats
    /\ blog_posts = {}
    /\ posted = 0
    /\ blog_reply = NoStats

----------------------------------------------------------------------------
(* Per-platform sync tasks: sync_ebay_task, sync_etsy_task, sync_reddit_task. *)
(* An action runs from one store call or adapter call up to the next one:    *)
(* the statements in between touch only locals of the attempt.               *)

\* beat schedule entry or trigger_sync: apply_async of one platform's task
TriggerSync(t) ==
    /\ pstate = "idle"
    /\ trigger[t] = "none"
    /\ trigger' = [trigger EXCEPT ![t] = "single"]
    /\ state' = [state EXCEPT ![t] = "queued"]
    /\ UNCHANGED <<marketplace_sync_jobs, pc, retries, job_id, stats, exc,
                   pstate, combined_stats, pexc>>
    /\ UNCHANGED nonJobVars

\* mutant: the job row is inserted twice
TaskInsertOk_Twice(t) ==
    /\ state[t] = "queued"
    /\ LET row == InsertedJob(t) IN
         /\ marketplace_sync_jobs' = marketplace_sync_jobs \cup
               {row, [row EXCEPT !.id = <<t, row.id[2] + 1>>]}
         /\ job_id' = [job_id EXCEPT ![t] = row.id]
    /\ state' = [state EXCEPT ![t] = "started"]
    /\ pc' = [pc EXCEPT ![t] = "sync"]
    /\ UNCHANGED <<retries, stats, exc, trigger, pstate, combined_stats, pexc>>
    /\ UNCHANGED nonJobVars

\* an attempt starts; insert(job_data).execute() returns the new row
TaskInsertOk(t) ==
    /\ state[t] = "queued"
    /\ LET row == InsertedJob(t) IN
         /\ marketplace_sync_jobs' = marketplace_sync_jobs \cup {row}
         /\ job_id' = [job_id EXCEPT ![t] = row.id]
    /\ state' = [state EXCEPT ![t] = "started"]
    /\ pc' = [pc EXCEPT ![t] = "sync"]
    /\ UNCHANGED <<retries, stats, exc, trigger, pstate, combined_stats, pexc>>
    /\ UNCHANGED nonJobVars

\* an attempt starts; insert(job_data).execute() raises. In the except block
\* 'if job_id:' reads a local that was never assigned: UnboundLocalError
\* leaves the handler before self.retry is reached
TaskInsertRaise(t) ==
    /\ state[t] = "queued"
    /\ exc' = [exc EXCEPT ![t] = ExceptWithJobId(job_id[t])]
    /\ state' = [state EXCEPT ![t] = "failure"]
    /\ UNCHANGED <<marketplace_sync_jobs, pc, retries, job_id, stats,
                   trigger, pstate, combined_stats, pexc>>
    /\ UNCHANGED nonJobVars

\* stats = sync_<platform>(keywords, limit) raises (the soft time limit
\* expires while it runs): control enters the except block
TaskSyncRaise(t) ==
    /\ pc[t] = "sync"
    /\ exc' = [exc EXCEPT ![t] = "Exception"]
    /\ pc' = [pc EXCEPT ![t] = "except"]
    /\ UNCHANGED <<marketplace_sync_jobs, state, retries, job_id, stats,
                   trigger, pstate, combined_stats, pexc>>
    /\ UNCHANGED nonJobVars

\* stats = sync_<platform>(keywords, limit) returns s; then
\* if job_id: update(update_data).eq("id", job_id) succeeds; return stats
TaskComplete(t, s) ==
    /\ pc[t] = "sync"
    /\ stats' = [stats EXCEPT ![t] = s]
    /\ marketplace_sync_jobs' =
         UpdateJob(marketplace_sync_jobs, job_id[t], update_data(s, t))
    /\ state' = [state EXCEPT ![t] = "success"]
    /\ pc' = [pc EXCEPT ![t] = "none"]
    /\ job_id' = [job_id EXCEPT ![t] = Unbound]
    /\ UNCHANGED <<retries, exc, trigger, pstate, combined_stats, pexc>>
    /\ UNCHANGED nonJobVars

\* the sync returns any of the dictionaries a sync can return
TaskCompleteOk(t) == \E s \in SyncStats(t) : TaskComplete(t, s)

\* the sync returns, then the 'completed' update raises: control enters the
\* except block (stats is not read again)
TaskCompleteRaise(t) ==
    /\ pc[t] = "sync"
    /\ exc' = [exc EXCEPT ![t] = "Exception"]
    /\ pc' = [pc EXCEPT ![t] = "except"]
    /\ UNCHANGED <<marketplace_sync_jobs, state, retries, job_id, stats,
                   trigger, pstate, combined_stats, pexc>>
    /\ UNCHANGED nonJobVars

\* except block: update(error_data).eq("id", job_id) succeeds, then
\* raise self.retry(exc=e) with retries left: the task is queued again
TaskFailRetry(t) ==
    /\ pc[t] = "except"
    /\ CanRetry(retries[t])
    /\ marketplace_sync_jobs' =
         UpdateJob(marketplace_sync_jobs, job_id[t], error_data(exc[t]))
    /\ retries' = [retries EXCEPT ![t] = retries[t] + 1]
    /\ state' = [state EXCEPT ![t] = "queued"]
    /\ pc' = [pc EXCEPT ![t] = "none"]
    /\ job_id' = [job_id EXCEPT ![t] = Unbound]
    /\ exc' = [exc EXCEPT ![t] = NoExc]
    /\ UNCHANGED <<stats, trigger, pstate, combined_stats, pexc>>
    /\ UNCHANGED nonJobVars

\* except block: update(error_data) succeeds, then raise self.retry(exc=e)
\* with no retry left: the exception is re-raised and the task fails
TaskFailExhausted(t) ==
    /\ pc[t] = "except"
    /\ ~CanRetry(retries[t])
    /\ marketplace_sync_jobs' =
         UpdateJob(marketplace_sync_jobs, job_id[t], error_data(exc[t]))
    /\ state' = [state EXCEPT ![t] = "failure"]
    /\ pc' = [pc EXCEPT ![t] = "none"]
    /\ job_id' = [job_id EXCEPT ![t] = Unbound]
    /\ UNCHANGED <<retries, stats, exc, trigger, pstate, combined_stats, pexc>>
    /\ UNCHANGED nonJobVars

\* except block: the 'failed' update raises and leaves the handler, so
\* self.retry is not reached
TaskFailUpdateRaise(t) ==
    /\ pc[t] = "except"
    /\ state' = [state EXCEPT ![t] = "failure"]
    /\ pc' = [pc EXCEPT ![t] = "none"]
    /\ job_id' = [job_id EXCEPT ![t] = Unbound]
    /\ UNCHANGED <<marketplace_sync_jobs, retries, stats, exc, trigger,
                   pstate, combined_stats, pexc>>
    /\ UNCHANGED nonJobVars

----------------------------------------------------------------------------
(* Fan-out: sync_all_marketplaces_task *)

\* trigger_sync with platform 'all': apply_async of the fan-out task
TriggerAll ==
    /\ pstate = "idle"
    /\ \A t \in Platforms : trigger[t] = "none"
    /\ pstate' = "queued"
    /\ UNCHANGED <<marketplace_sync_jobs, state, pc, retries, job_id, stats,
                   exc, trigger, combined_stats, pexc>>
    /\ UNCHANGED nonJobVars

\* group([...]).apply_async(): the three sub-tasks are queued
FanOutStart ==
    /\ pstate = "queued"
    /\ \A t \in Platforms : trigger[t] = "none"
    /\ trigger' = [t \in Platforms |-> "group"]
    /\ state' = [t \in Platforms |-> "queued"]
    /\ pstate' = "waiting"
    /\ UNCHANGED <<marketplace_sync_jobs, pc, retries, job_id, stats, exc,
                   combined_stats, pexc>>
    /\ UNCHANGED nonJobVars

\* mutant: the Reddit result is read under the key of the other two
total_listings_SameKey(results) ==
    Get(results["ebay"], "listings_found", 0)
    + Get(results["etsy"], "listings_found", 0)
    + Get(results["reddit"], "listings_found", 0)

total_listings(results) ==
    Get(results["ebay"], "listings_found", 0)
    + Get(results["etsy"], "listings_found", 0)
    + Get(results["reddit"], "posts_found", 0)

\* result.get(timeout=600) returns the three results; they are combined
FanOutJoin ==
    /\ pstate = "waiting"
    /\ \A t \in Platforms : state[t] = "success"
    /\ combined_stats' = [ebay |-> stats["ebay"], etsy |-> stats["etsy"],
                          reddit |-> stats["reddit"],
                          total_listings |-> total_listings(stats)]
    /\ pstate' = "success"
    /\ UNCHANGED <<marketplace_sync_jobs, state, pc, retries, job_id, stats,
                   exc, trigger, pexc>>
    /\ UNCHANGED nonJobVars

\* result.get(timeout=600) re-raises the exception of a failed sub-task
FanOutJoinRaise ==
    /\ pstate = "waiting"
    /\ \E t \in Platforms : state[t] = "failure" /\ pexc' = exc[t]
    /\ pstate' = "failure"
    /\ UNCHANGED <<marketplace_sync_jobs, state, pc, retries, job_id, stats,
                   exc, trigger, combined_stats>>
    /\ UNCHANGED nonJobVars

\* result.get(timeout=600) times out before every sub-task is ready
FanOutJoinTimeout ==
    /\ pstate = "waiting"
    /\ \E t \in Platforms : state[t] \notin {"success", "failure"}
    /\ pexc' = "TimeoutError"
    /\ pstate' = "failure"
    /\ UNCHANGED <<marketplace_sync_jobs, state, pc, retries, job_id, stats,
                   exc, trigger, combined_stats>>
    /\ UNCHANGED nonJobVars

----------------------------------------------------------------------------
(* Upsert loop of the adapters: eBayService / EtsyService / RedditService    *)
(* sync_listings, save_listings_to_db and save_posts_to_db. The three are    *)
(* the same code up to the platform literal. A run is one call of            *)
(* sync_listings; an action is one store call of the loop with the local     *)
(* statements that follow it.                                                *)

Runs == {1, 2}

ExternalIds == 1..MaxExternalId

\* a parsed listing. The save loop never looks into the vendor's payload, so
\* the payload is one value, title, and it names the fetch it comes from
\* (run s, position i): no two fetched items carry the same payload
Listing(p, e, v) == [platform |-> p, external_id |-> e, title |-> v]

\* the external ids a search can return, in order
Batches == UNION { [1..n -> ExternalIds] : n \in 0..MaxBatch }

\* the parsed batch of run s for the ids the search returned
Parsed(s, p, ids) == [i \in 1..Len(ids) |-> Listing(p, ids[i], <<s, i>>)]

ZeroCounts == [added |-> 0, updated |-> 0, errors |-> 0]

\* mutant: the lookup is filtered on external_id only
SelectIds_AnyPlatform(table, p, e) ==
    { r.id : r \in { x \in table : x.external_id = e } }

\* select("id").eq("platform", p).eq("external_id", e): the matching ids
SelectIds(table, p, e) ==
    { r.id : r \in { x \in table : x.platform = p /\ x.external_id = e } }

\* mutant: the update has no filter
UpdateListing_AllRows(table, id, listing) ==
    { Patch(r, listing) : r \in table }

\* update(listing).eq("id", id): every column of the listing is written
UpdateListing(table, id, listing) ==
    { IF r.id = id THEN Patch(r, listing) ELSE r : r \in table }

\* insert(listing): the store adds a row under a fresh id
InsertListing(table, listing) ==
    table \cup { [id |-> Cardinality(table) + 1,
                  platform |-> listing.platform,
                  external_id |-> listing.external_id,
                  title |-> listing.title] }

\* end of one loop iteration: next listing, or the loop ends and
\* sync_listings returns the counts with the number of listings found
EndIteration(s, c) ==
    /\ counts' = [counts EXCEPT ![s] = c]
    /\ existing' = [existing EXCEPT ![s] = {}]
    /\ IF sidx[s] < Len(listings[s])
       THEN /\ sidx' = [sidx EXCEPT ![s] = sidx[s] + 1]
            /\ spc' = [spc EXCEPT ![s] = "select"]
            /\ UNCHANGED sresult
       ELSE /\ UNCHANGED sidx
            /\ spc' = [spc EXCEPT ![s] = "done"]
            /\ sresult' = [sresult EXCEPT ![s] =
                             SyncResult(splatform[s], c, Len(listings[s]))]

\* mutant: a failed listing is not counted
Bump_DropErrors(c, k) == IF k = "errors" THEN c ELSE [c EXCEPT ![k] = c[k] + 1]

\* added += 1, updated += 1 or errors += 1
Bump(c, k) == [c EXCEPT ![k] = c[k] + 1]

\* sync_listings starts: the search returns the parsed batch
SyncListings(s, p, ids) ==
    /\ spc[s] = "idle"
    /\ splatform' = [splatform EXCEPT ![s] = p]
    /\ listings' = [listings EXCEPT ![s] = Parsed(s, p, ids)]
    /\ IF ids = << >>
       THEN /\ spc' = [spc EXCEPT ![s] = "done"]
            /\ sresult' = [sresult EXCEPT ![s] = SyncResult(p, ZeroCounts, 0)]
       ELSE /\ spc' = [spc EXCEPT ![s] = "select"]
            /\ UNCHANGED sresult
    /\ UNCHANGED <<marketplace_listings, sidx, existing, counts>>
    /\ UNCHANGED nonSaveVars

\* the lookup returns
SaveSelectOk(s) ==
    /\ spc[s] = "select"
    /\ existing' = [existing EXCEPT ![s] =
          SelectIds(marketplace_listings, splatform[s],
                    listings[s][sidx[s]].external_id)]
    /\ spc' = [spc EXCEPT ![s] = "write"]
    /\ UNCHANGED <<marketplace_listings, splatform, listings, sidx, counts,
                   sresult>>
    /\ UNCHANGED nonSaveVars

\* the lookup raises: the listing is counted as an error
SaveSelectRaise(s) ==
    /\ spc[s] = "select"
    /\ EndIteration(s, Bump(counts[s], "errors"))
    /\ UNCHANGED <<marketplace_listings, splatform, listings>>
    /\ UNCHANGED nonSaveVars

\* existing.data is not empty: the row existing.data[0] is updated
SaveUpdateOk(s) ==
    /\ spc[s] = "write"
    /\ existing[s] # {}
    /\ \E id \in existing[s] :
         marketplace_listings' =
           UpdateListing(marketplace_listings, id, listings[s][sidx[s]])
    /\ EndIteration(s, Bump(counts[s], "updated"))
    /\ UNCHANGED <<splatform, listings>>
    /\ UNCHANGED nonSaveVars

\* the update raises: the listing is counted as an error
SaveUpdateRaise(s) ==
    /\ spc[s] = "write"
    /\ existing[s] # {}
    /\ EndIteration(s, Bump(counts[s], "errors"))
    /\ UNCHANGED <<marketplace_listings, splatform, listings>>
    /\ UNCHANGED nonSaveVars

\* existing.data is empty: the listing is inserted
SaveInsertOk(s) ==
    /\ spc[s] = "write"
    /\ existing[s] = {}
    /\ marketplace_listings' =
         InsertListing(marketplace_listings, listings[s][sidx[s]])
    /\ EndIteration(s, Bump(counts[s], "added"))
    /\ UNCHANGED <<splatform, listings>>
    /\ UNCHANGED nonSaveVars

\* the insert raises: the listing is counted as an error
SaveInsertRaise(s) ==
    /\ spc[s] = "write"
    /\ existing[s] = {}
    /\ EndIteration(s, Bump(counts[s], "errors"))
    /\ UNCHANGED <<marketplace_listings, splatform, listings>>
    /\ UNCHANGED nonSaveVars

SaveStep(s) ==
    \/ \E p \in Platforms : \E ids \in Batches : SyncListings(s, p, ids)
    \/ SaveSelectOk(s)
    \/ SaveSelectRaise(s)
    \/ SaveUpdateOk(s)
    \/ SaveUpdateRaise(s)
    \/ SaveInsertOk(s)
    \/ SaveInsertRaise(s)

\* two runs on two workers
NextSave == \E s \in Runs : SaveStep(s)

SpecSave == Init /\ [][NextSave]_vars

\* two runs, run 2 starting after run 1 has returned
NextSeq ==
    \E s \in Runs :
        /\ s = 2 => spc[1] = "done"
        /\ SaveStep(s)

SpecSeq == Init /\ [][NextSeq]_vars

----------------------------------------------------------------------------
Next ==
    \/ \E t \in Platforms : TriggerSync(t)
    \/ \E t \in Platforms : TaskInsertOk(t)
    \/ \E t \in Platforms : TaskInsertRaise(t)
    \/ \E t \in Platforms : TaskSyncRaise(t)
    \/ \E t \in Platforms : TaskCompleteOk(t)
    \/ \E t \in Platforms : TaskCompleteRaise(t)
    \/ \E t \in Platforms : TaskFailRetry(t)
    \/ \E t \in Platforms : TaskFailExhausted(t)
    \/ \E t \in Platforms : TaskFailUpdateRaise(t)
    \/ TriggerAll
    \/ FanOutStart
    \/ FanOutJoin
    \/ FanOutJoinRaise
    \/ FanOutJoinTimeout

Spec == Init /\ [][Next]_vars

----------------------------------------------------------------------------
(* Worker pool: celery_app.py. A pool process runs one task at a time and    *)
(* keeps it until the task returns or raises (task_acks_late,                *)
(* worker_prefetch_multiplier = 1). The fan-out task keeps its process while *)
(* it waits in result.get(timeout=600).                                      *)

\* pool processes that hold a task: the started attempts and the waiting
\* fan-out task
Busy ==
    Cardinality({ t \in Platforms : state[t] = "started" })
    + (IF pstate = "waiting" THEN 1 ELSE 0)

\* a pool process can take the next task of the queue
FreeWorker == Busy < workers

\* the worker is started with a pool of n processes
StartWorkers(n) ==
    /\ workers = 0
    /\ workers' = n
    /\ UNCHANGED <<jobVars, saveVars, trendVars, fetchVars, routerVars,
                   enrichVars,
                   redditVars, shopVars, blogVars>>

\* the steps of Spec, a queued task starting only on a free pool process
NextPool ==
    \/ \E n \in 1..MaxWorkers : StartWorkers(n)
    \/ \E t \in Platforms : TriggerSync(t)
    \/ \E t \in Platforms : FreeWorker /\ TaskInsertOk(t)
    \/ \E t \in Platforms : FreeWorker /\ TaskInsertRaise(t)
    \/ \E t \in Platforms : TaskSyncRaise(t)
    \/ \E t \in Platforms : TaskCompleteOk(t)
    \/ \E t \in Platforms : TaskCompleteRaise(t)
    \/ \E t \in Platforms : TaskFailRetry(t)
    \/ \E t \in Platforms : TaskFailExhausted(t)
    \/ \E t \in Platforms : TaskFailUpdateRaise(t)
    \/ TriggerAll
    \/ FreeWorker /\ FanOutStart
    \/ FanOutJoin
    \/ FanOutJoinRaise
    \/ FanOutJoinTimeout

SpecPool == Init /\ [][NextPool]_vars

----------------------------------------------------------------------------
(* Trend aggregator: generate_daily_trends and its helpers in                *)
(* tasks/analytics_tasks.py. A run is one call of generate_daily_trends; an  *)
(* action is one store call with the local statements that follow it. The    *)
(* columns created_at and updated_at of a trend row are not modelled.        *)

\* the platforms of the loop of _calculate_platform_trends
PlatformSeq == <<"ebay", "etsy", "reddit">>

\* the columns of a listing the aggregator reads
TrendListing(p, price, brand, score) ==
    [platform |-> p, price |-> price, brand |-> brand, trend_score |-> score]

\* the rows a window is drawn from. A Reddit post carries a computed
\* trend_score, a price that is null, 0 or positive and a brand that is null
\* or recognised; an eBay or Etsy listing is ingested with a null
\* trend_score and a null brand, which enrichment may set; Etsy reads a
\* missing price as 0
ListingKinds ==
    << TrendListing("reddit", 10, "Lee", 50),
       TrendListing("reddit", 0, None, 50),
       TrendListing("reddit", Null, None, 50),
       TrendListing("ebay", 20, None, Null),
       TrendListing("etsy", 0, "Lee", Null) >>

\* the non-decreasing index sequences of length n: one per multiset of rows
SortedIdx(n) ==
    { s \in [1..n -> DOMAIN ListingKinds] :
        \A i \in 1..n : \A j \in 1..n : i < j => s[i] <= s[j] }

\* every result the select of the window can return, up to the order of rows
Windows ==
    UNION { { [i \in 1..n |-> ListingKinds[s[i]]] : s \in SortedIdx(n) } :
              n \in 0..MaxWindow }

\* end_date = datetime.now(), in days; start_date = end_date - timedelta(days=1)
EndDates == {1, 2}

\* Python truth value of a nullable number
Truthy(x) == x # Null /\ x # 0

RECURSIVE GCD(_, _)
GCD(a, b) == IF b = 0 THEN a ELSE GCD(b, a % b)

\* a / b, the float, as the fraction in lowest terms (b > 0)
Div(a, b) == LET g == GCD(a, b) IN <<a \div g, b \div g>>

\* the number 0 where a float may stand
Zero == <<0, 1>>

RECURSIVE SumSeq(_)
SumSeq(s) == IF s = << >> THEN 0 ELSE Head(s) + SumSeq(Tail(s))

Range(s) == { s[i] : i \in DOMAIN s }

MinOf(s) == CHOOSE x \in Range(s) : \A y \in Range(s) : x <= y

MaxOf(s) == CHOOSE x \in Range(s) : \A y \in Range(s) : y <= x

\* prices = [l.get("price", 0) for l in group if l.get("price")]
PricesOf(group) ==
    LET priced == SelectSeq(group, LAMBDA l : Truthy(l.price))
    IN [i \in 1..Len(priced) |-> priced[i].price]

avg_price(prices) ==
    IF prices # << >> THEN Div(SumSeq(prices), Len(prices)) ELSE Zero

min_price(prices) == IF prices # << >> THEN MinOf(prices) ELSE 0

max_price(prices) == IF prices # << >> THEN MaxOf(prices) ELSE 0

\* [l.get("trend_score", 0) for l in group]: the column is in every row
ScoresOf(group) == [i \in 1..Len(group) |-> group[i].trend_score]

\* sum(...) over a list that holds None raises TypeError
SumRaises(scores) == \E i \in DOMAIN scores : scores[i] = Null

PlatformGroup(ls, p) == SelectSeq(ls, LAMBDA l : l.platform = p)

BrandGroup(ls, b) == SelectSeq(ls, LAMBDA l : l.brand = b)

\* the platforms of the loop that have listings, in the order of the loop
PlatformsIn(ls) == SelectSeq(PlatformSeq, LAMBDA p : PlatformGroup(ls, p) # << >>)

\* the keys of the dictionary brands, in insertion order
RECURSIVE BrandsIn(_, _)
BrandsIn(ls, seen) ==
    IF ls = << >> THEN seen
    ELSE LET b == Head(ls).brand
         IN BrandsIn(Tail(ls),
                     IF b # None /\ b \notin Range(seen)
                     THEN Append(seen, b) ELSE seen)

calculate_platform_trends(ls) ==
    [p \in Range(PlatformsIn(ls)) |->
        LET g == PlatformGroup(ls, p) IN
          [total_listings |-> Len(g),
           avg_price |-> avg_price(PricesOf(g)),
           min_price |-> min_price(PricesOf(g)),
           max_price |-> max_price(PricesOf(g)),
           total_sales |-> 0,
           engagement_score |-> Div(SumSeq(ScoresOf(g)), Len(g))]]

calculate_brand_trends(ls) ==
    [b \in Range(BrandsIn(ls, << >>)) |->
        LET g == BrandGroup(ls, b) IN
          [total_listings |-> Len(g),
           avg_price |-> avg_price(PricesOf(g)),
           min_price |-> min_price(PricesOf(g)),
           max_price |-> max_price(PricesOf(g)),
           engagement_score |-> Div(SumSeq(ScoresOf(g)), Len(g))]]

calculate_overall_trends(ls) ==
    LET scored == SelectSeq(ls, LAMBDA l : Truthy(l.trend_score))
        engagement_scores == ScoresOf(scored)
    IN [total_listings |-> Len(ls),
        avg_price |-> avg_price(PricesOf(ls)),
        min_price |-> min_price(PricesOf(ls)),
        max_price |-> max_price(PricesOf(ls)),
        engagement_score |->
            IF engagement_scores # << >>
            THEN Div(SumSeq(engagement_scores), Len(engagement_scores))
            ELSE Zero,
        total_sales |-> 0]

\* the calculations raise: a group's sum meets a null trend_score
CalculateRaises(ls) ==
    \/ \E i \in DOMAIN PlatformsIn(ls) :
          SumRaises(ScoresOf(PlatformGroup(ls, PlatformsIn(ls)[i])))
    \/ \E i \in DOMAIN BrandsIn(ls, << >>) :
          SumRaises(ScoresOf(BrandGroup(ls, BrandsIn(ls, << >>)[i])))

\* the dictionary record built by _save_trend_record(platform, category, ...)
save_trend_record(platform, category, trend_data, end_date) ==
    [category |-> category,
     platform |-> platform,
     total_listings |-> Get(trend_data, "total_listings", 0),
     avg_price |-> Get(trend_data, "avg_price", Zero),
     min_price |-> Get(trend_data, "min_price", 0),
     max_price |-> Get(trend_data, "max_price", 0),
     total_sales |-> Get(trend_data, "total_sales", 0),
     engagement_score |-> Get(trend_data, "engagement_score", Zero),
     period_start |-> end_date - 1,
     period_end |-> end_date]

\* mutant: the platform name is passed as the category
PlatformSave_AsCategory(platform, trend_data, end_date) ==
    save_trend_record("all", platform, trend_data, end_date)

\* _save_trend_record(platform, "platform", trend_data, ...)
PlatformSave(platform, trend_data, end_date) ==
    save_trend_record(platform, "platform", trend_data, end_date)

\* _save_trend_record("all", brand, trend_data, ...)
BrandSave(brand, trend_data, end_date) ==
    save_trend_record("all", brand, trend_data, end_date)

\* _save_trend_record("all", "overall", overall_trends, ...)
OverallSave(trend_data, end_date) ==
    save_trend_record("all", "overall", trend_data, end_date)

\* the records of one run, in the order they are saved
Saves(ls, end_date) ==
    LET ps == PlatformsIn(ls)
        bs == BrandsIn(ls, << >>)
    IN [i \in 1..Len(ps) |->
            PlatformSave(ps[i], calculate_platform_trends(ls)[ps[i]], end_date)]
       \o [i \in 1..Len(bs) |->
            BrandSave(bs[i], calculate_brand_trends(ls)[bs[i]], end_date)]
       \o << OverallSave(calculate_overall_trends(ls), end_date) >>

ScopeOf(r) == <<r.category, r.platform, r.period_start, r.period_end>>

\* mutant: the lookup is filtered on platform only
SelectTrendIds_PlatformOnly(table, record) ==
    { x.id : x \in { y \in table : y.platform = record.platform } }

\* select("id").eq("category", ..).eq("platform", ..).eq("period_start", ..)
\* .eq("period_end", ..)
SelectTrendIds(table, record) ==
    { x.id : x \in { y \in table : ScopeOf(y) = ScopeOf(record) } }

\* update(record).eq("id", id)
UpdateTrend(table, id, record) ==
    { IF x.id = id THEN Patch(x, record) ELSE x : x \in table }

\* insert(record): the store adds a row under a fresh id
InsertTrend(table, record) ==
    table \cup { [id |-> Cardinality(table) + 1] @@ record }

\* the dictionary a completed run returns
TrendResult(ls) ==
    [status |-> "completed",
     listings_analyzed |-> Len(ls),
     platforms_analyzed |-> Len(PlatformsIn(ls)),
     brands_identified |-> Len(BrandsIn(ls, << >>))]

\* mutant: an empty window is aggregated like any other
NoData_Never(ls) == FALSE

\* 'if not listings': the run returns before anything is calculated
NoData(ls) == ls = << >>

\* the beat schedule starts run 2 after run 1 has returned
Scheduled(r) == r = 1 \/ tpc[1] = "done"

\* datetime.now() of run r: run 2 does not read an earlier clock than run 1
Clock(r) == IF r = 1 THEN EndDates ELSE { e \in EndDates : e >= tend[1] }

\* the select of the window returns ls at end_date; the trends are calculated
GenerateDailyTrends(r, end_date, ls) ==
    /\ tpc[r] = "idle"
    /\ Scheduled(r)
    /\ twindow' = [twindow EXCEPT ![r] = ls]
    /\ tend' = [tend EXCEPT ![r] = end_date]
    /\ IF NoData(ls)
       THEN /\ tresult' = [tresult EXCEPT ![r] = [status |-> "no_data"]]
            /\ tpc' = [tpc EXCEPT ![r] = "done"]
            /\ UNCHANGED tsaves
       ELSE IF CalculateRaises(ls)
       THEN /\ tresult' = [tresult EXCEPT ![r] =
                             [status |-> "failed", error |-> "TypeError"]]
            /\ tpc' = [tpc EXCEPT ![r] = "done"]
            /\ UNCHANGED tsaves
       ELSE /\ tsaves' = [tsaves EXCEPT ![r] = Saves(ls, end_date)]
            /\ tpc' = [tpc EXCEPT ![r] = "select"]
            /\ UNCHANGED tresult
    /\ UNCHANGED <<marketplace_trends, tidx, texisting, tlog>>
    /\ UNCHANGED <<jobVars, saveVars, poolVars, fetchVars, routerVars,
                   enrichVars,
                   redditVars, shopVars, blogVars>>

\* the select of the window raises
GenerateSelectRaise(r) ==
    /\ tpc[r] = "idle"
    /\ Scheduled(r)
    /\ tresult' = [tresult EXCEPT ![r] =
                     [status |-> "failed", error |-> "Exception"]]
    /\ tpc' = [tpc EXCEPT ![r] = "done"]
    /\ UNCHANGED <<marketplace_trends, twindow, tend, tsaves, tidx,
                   texisting, tlog>>
    /\ UNCHANGED <<jobVars, saveVars, poolVars, fetchVars, routerVars,
                   enrichVars,
                   redditVars, shopVars, blogVars>>

\* _save_trend_record returns: the next record, or the run returns
EndSave(r) ==
    /\ texisting' = [texisting EXCEPT ![r] = {}]
    /\ IF tidx[r] < Len(tsaves[r])
       THEN /\ tidx' = [tidx EXCEPT ![r] = tidx[r] + 1]
            /\ tpc' = [tpc EXCEPT ![r] = "select"]
            /\ UNCHANGED tresult
       ELSE /\ UNCHANGED tidx
            /\ tpc' = [tpc EXCEPT ![r] = "done"]
            /\ tresult' = [tresult EXCEPT ![r] = TrendResult(twindow[r])]
    /\ UNCHANGED <<twindow, tend, tsaves>>
    /\ UNCHANGED <<jobVars, saveVars, poolVars, fetchVars, routerVars,
                   enrichVars,
                   redditVars, shopVars, blogVars>>

\* _save_trend_record: the lookup returns
TrendSelectOk(r) ==
    /\ tpc[r] = "select"
    /\ texisting' = [texisting EXCEPT ![r] =
                       SelectTrendIds(marketplace_trends, tsaves[r][tidx[r]])]
    /\ tpc' = [tpc EXCEPT ![r] = "write"]
    /\ UNCHANGED <<marketplace_trends, twindow, tend, tsaves, tidx, tlog,
                   tresult>>
    /\ UNCHANGED <<jobVars, saveVars, poolVars, fetchVars, routerVars,
                   enrichVars,
                   redditVars, shopVars, blogVars>>

\* the lookup raises: logged, and the record is not saved
TrendSelectRaise(r) ==
    /\ tpc[r] = "select"
    /\ tlog' = [tlog EXCEPT ![r] = tlog[r] + 1]
    /\ EndSave(r)
    /\ UNCHANGED marketplace_trends

\* existing.data is not empty: the row existing.data[0] is updated
TrendUpdateOk(r) ==
    /\ tpc[r] = "write"
    /\ texisting[r] # {}
    /\ \E id \in texisting[r] :
         marketplace_trends' =
           UpdateTrend(marketplace_trends, id, tsaves[r][tidx[r]])
    /\ EndSave(r)
    /\ UNCHANGED tlog

\* the update raises: logged, and the row keeps its values
TrendUpdateRaise(r) ==
    /\ tpc[r] = "write"
    /\ texisting[r] # {}
    /\ tlog' = [tlog EXCEPT ![r] = tlog[r] + 1]
    /\ EndSave(r)
    /\ UNCHANGED marketplace_trends

\* existing.data is empty: the record is inserted
TrendInsertOk(r) ==
    /\ tpc[r] = "write"
    /\ texisting[r] = {}
    /\ marketplace_trends' =
         InsertTrend(marketplace_trends, tsaves[r][tidx[r]])
    /\ EndSave(r)
    /\ UNCHANGED tlog

\* the insert raises: logged, and no row is added
TrendInsertRaise(r) ==
    /\ tpc[r] = "write"
    /\ texisting[r] = {}
    /\ tlog' = [tlog EXCEPT ![r] = tlog[r] + 1]
    /\ EndSave(r)
    /\ UNCHANGED marketplace_trends

\* a step of run r
TrendStep(r) ==
    \/ \E end_date \in Clock(r) : \E ls \in Windows :
          GenerateDailyTrends(r, end_date, ls)
    \/ GenerateSelectRaise(r)
    \/ TrendSelectOk(r)
    \/ TrendSelectRaise(r)
    \/ TrendUpdateOk(r)
    \/ TrendUpdateRaise(r)
    \/ TrendInsertOk(r)
    \/ TrendInsertRaise(r)

\* two runs of the schedule
NextTrend == \E r \in 1..2 : TrendStep(r)

SpecTrend == Init /\ [][NextTrend]_vars

----------------------------------------------------------------------------
(* Fetch of the adapters: eBayService.search_vintage_jeans,                  *)
(* EtsyService.search_vintage_jeans, RedditService.search_marketplace_posts, *)
(* and one sync task from the fetch to its job row.                          *)

\* how the vendor client can fail: the package is missing, the credential
\* is refused, the call does not get through, the payload has no item list
Failures == {"not_installed", "unauthenticated", "unreachable",
             "malformed_payload"}

\* a raw item of a vendor response; parsing a malformed item raises
RawItem(e, malformed) == [external_id |-> e, malformed |-> malformed]

RawItems == { RawItem(e, m) : e \in ExternalIds, m \in BOOLEAN }

ItemLists == UNION { [1..n -> RawItems] : n \in 0..MaxBatch }

\* the answers of the vendor to one fetch. With a payload that has no item
\* list, items is what Etsy's fallback endpoint returns
Responses ==
    { [failure |-> "none", items |-> items] : items \in ItemLists }
    \cup { [failure |-> f, items |-> << >>] : f \in Failures }
    \cup { [failure |-> "malformed_payload", items |-> items] :
             items \in ItemLists }

\* the external ids of the parsed items, in the order of the response
ParsedIds(items) == [i \in 1..Len(items) |-> items[i].external_id]

\* the loop 'for item in ...: listings.append(parse(item))' inside the try:
\* a parse that raises leaves the loop, and 'except Exception' returns []
ParseLoop(items) ==
    IF \E i \in DOMAIN items : items[i].malformed
    THEN << >>
    ELSE ParsedIds(items)

\* _search_listings_alternative: the same loop over the fallback's items
search_listings_alternative(items) == ParseLoop(items)

\* the list the fetch of adapter p returns for the vendor's answer (for
\* Reddit, the answer of one subreddit, the others having no post)
Search(p, resp) ==
    IF resp.failure = "none" THEN ParseLoop(resp.items)
    ELSE IF resp.failure = "malformed_payload" /\ p = "etsy"
    THEN search_listings_alternative(resp.items)
    ELSE << >>

\* one sync is triggered
TriggerOne(t) ==
    /\ \A u \in Platforms : trigger[u] = "none"
    /\ TriggerSync(t)

\* listings = self.search_vintage_jeans(keywords, limit, filters)
Fetch(t, resp) ==
    /\ pc[t] = "sync"
    /\ fpc = "idle"
    /\ response' = resp
    /\ fetched' = Search(t, resp)
    /\ fpc' = "fetched"
    /\ UNCHANGED <<jobVars, saveVars, poolVars, trendVars, routerVars,
                   enrichVars,
                   redditVars, shopVars, blogVars>>

\* stats = self.save_listings_to_db(listings), from its first statement
FetchSave(t) ==
    /\ pc[t] = "sync"
    /\ fpc = "fetched"
    /\ SyncListings(1, t, fetched)

\* the task receives the dictionary sync_listings returned
FetchComplete(t) ==
    /\ fpc = "fetched"
    /\ spc[1] = "done"
    /\ TaskComplete(t, sresult[1])

NextFetch ==
    \/ \E t \in Platforms : TriggerOne(t)
    \/ \E t \in Platforms : TaskInsertOk(t)
    \/ \E t \in Platforms : \E resp \in Responses : Fetch(t, resp)
    \/ \E t \in Platforms : FetchSave(t)
    \/ SaveSelectOk(1)
    \/ SaveSelectRaise(1)
    \/ SaveUpdateOk(1)
    \/ SaveUpdateRaise(1)
    \/ SaveInsertOk(1)
    \/ SaveInsertRaise(1)
    \/ \E t \in Platforms : FetchComplete(t)

SpecFetch == Init /\ [][NextFetch]_vars

----------------------------------------------------------------------------
(* trigger_sync: research/routers/marketplace_router.py. The broker's queue  *)
(* holds the messages apply_async has sent; a worker takes them in order.    *)

\* platform names a request can carry
PlatformNames == {"ebay", "etsy", "reddit", "all", "EBAY", "All", "amazon", ""}

\* str.lower() on the strings of this module
Lower(name) ==
    CASE name = "EBAY" -> "ebay"
      [] name = "All" -> "all"
      [] name = "True" -> "true"
      [] OTHER -> name

\* the branches of the if / elif chain
TaskOf(platform) ==
    CASE platform = "ebay" -> "sync_ebay_task"
      [] platform = "etsy" -> "sync_etsy_task"
      [] platform = "reddit" -> "sync_reddit_task"
      [] platform = "all" -> "sync_all_marketplaces_task"
      [] OTHER -> "none"

\* mutant: the message is sent twice
Enqueue_Twice(q, task, id) ==
    Append(Append(q, [task |-> task, id |-> id]), [task |-> task, id |-> id])

\* apply_async sends one message; the broker appends it to the queue
Enqueue(q, task, id) == Append(q, [task |-> task, id |-> id])

\* the handler, for a request naming platform `name`; delivered tells whether
\* apply_async returns or raises (the broker cannot be reached)
trigger_sync(name, delivered) ==
    /\ requests < MaxRequests
    /\ requests' = requests + 1
    /\ LET platform == Lower(name)
           task == TaskOf(platform)
           task_id == requests + 1
       IN IF task = "none"
          THEN /\ http' = [requested |-> name, code |-> 400,
                           detail |-> "Invalid platform", platform |-> platform,
                           task_id |-> 0]
               /\ UNCHANGED queue
          ELSE IF delivered
          THEN /\ queue' = Enqueue(queue, task, task_id)
               /\ http' = [requested |-> name, code |-> 200,
                           detail |-> "triggered", platform |-> platform,
                           task_id |-> task_id]
          ELSE /\ http' = [requested |-> name, code |-> 500,
                           detail |-> "Failed to trigger sync",
                           platform |-> platform, task_id |-> 0]
               /\ UNCHANGED queue
    /\ UNCHANGED <<jobVars, saveVars, poolVars, trendVars, fetchVars,
                   enrichVars,
                   redditVars, shopVars, blogVars>>

\* a worker takes the first message of the queue
WorkerTakes ==
    /\ queue # << >>
    /\ queue' = Tail(queue)
    /\ UNCHANGED <<requests, http>>
    /\ UNCHANGED <<jobVars, saveVars, poolVars, trendVars, fetchVars,
                   enrichVars,
                   redditVars, shopVars, blogVars>>

NextTrigger ==
    \/ \E name \in PlatformNames : \E delivered \in BOOLEAN :
          trigger_sync(name, delivered)
    \/ WorkerTakes

SpecTrigger == Init /\ [][NextTrigger]_vars

----------------------------------------------------------------------------
(* AI enrichment: analyze_listing_with_ai in tasks/analytics_tasks.py. An    *)
(* action runs from one external call (store, model) up to the next one.     *)

\* os.getenv(name, default)
Getenv(value, default) == IF value = None THEN default ELSE value

\* what MARKETPLACE_ENABLE_AI_ANALYSIS and OPENAI_API_KEY can be set to
AiFlags == {None, "true", "True", "false"}
ApiKeys == {None, "", "sk-key"}

\* the environment of one call: the two variables, whether the openai
\* package can be imported, and the listing_id passed
Configs ==
    [flag : AiFlags, api_key : ApiKeys, openai : BOOLEAN, listing_id : {1, 3}]

\* mutant: the flag is compared as it is written
Enabled_CaseSensitive(flag) == Getenv(flag, "true") = "true"

\* os.getenv("MARKETPLACE_ENABLE_AI_ANALYSIS", "true").lower() == "true"
Enabled(flag) == Lower(Getenv(flag, "true")) = "true"

\* 'if not openai.api_key' is false
HasKey(api_key) == api_key # None /\ api_key # ""

\* datetime.now() of a store write: later than every stamp in the table
Now(table) ==
    LET stamps == { x.updated_at : x \in table } IN
      IF stamps = {} THEN 1
      ELSE 1 + CHOOSE m \in stamps : \A n \in stamps : n <= m

\* the standardized listing an adapter parses: the columns enrichment reads
\* and writes, with the enrichment columns as the parsers set them
ParsedListing(platform, description, condition, brand) ==
    [platform |-> platform, external_id |-> "x1", title |-> "title",
     description |-> description, price |-> 20, condition |-> condition,
     size |-> None, brand |-> brand, waist_size |-> Null,
     inseam_length |-> Null, style |-> None, wash |-> None, era |-> None,
     ai_tags |-> << >>, ai_summary |-> None]

\* what the three parsers can return for one item: eBay has no description,
\* Etsy's condition is 'vintage', Reddit extracts a brand from the text
ParsedListings ==
    { ParsedListing("ebay", None, c, None) : c \in {None, "Good"} }
      \cup { ParsedListing("etsy", "description", "vintage", None) }
      \cup { ParsedListing("reddit", None, None, None),
             ParsedListing("reddit", "description", None, "Lee") }

\* the row an insert of listing makes at time now
IngestedRow(id, listing, now) ==
    [k \in DOMAIN listing \cup
             {"id", "created_at", "updated_at", "last_synced_at"} |->
        IF k = "id" THEN id
        ELSE IF k \in {"created_at", "updated_at", "last_synced_at"} THEN now
        ELSE listing[k]]

\* mutant: the sync leaves the enrichment columns out of its update
ResyncData_KeepEnrichment(listing, now) ==
    [k \in {"title", "description", "price", "condition", "updated_at",
            "last_synced_at"} |->
        IF k \in {"updated_at", "last_synced_at"} THEN now ELSE listing[k]]

\* the dictionary an update of an existing listing writes at time now
ResyncData(listing, now) ==
    [k \in DOMAIN listing \cup {"updated_at", "last_synced_at"} |->
        IF k \in {"updated_at", "last_synced_at"} THEN now ELSE listing[k]]

\* JSON numbers in the model's answer, written as tagged text
JsonNumbers == {"number:0", "number:32", "number:34"}

\* the JSON objects the model can answer with: a key that is absent or null
\* reads None; size and inseam_length are strings, of digits or not, or
\* JSON numbers; the other keys are all set or all null
AiData ==
    { [brand |-> b, size |-> sz, inseam_length |-> i, style |-> t[1],
       wash |-> t[2], era |-> t[3], condition |-> c, tags |-> t[4],
       summary |-> t[5]] :
        b \in {None, "Levi's"},
        sz \in {None, "32", "M", "number:32", "number:0"},
        i \in {None, "34", "long", "number:34"},
        c \in {None, "Fair"},
        t \in {<<None, None, None, << >>, None>>,
               <<"501", "Stonewash", "1990s", <<"denim">>, "summary">>} }

\* truth value of a JSON value: null, 0 and the empty string are false
JsonTruthy(v) == v \notin {None, "number:0", ""}

\* str.isdigit() and int() on the strings above
IsDigit(str) == str \in {"32", "34"}

ToInt(str) == CASE str = "32" -> 32 [] str = "34" -> 34 [] OTHER -> Null

\* 'x and x.isdigit()' raises AttributeError: a number has no isdigit
IsDigitRaises(v) == JsonTruthy(v) /\ v \in JsonNumbers

\* building update_data raises
UpdateDataRaises(ai_data) ==
    IsDigitRaises(ai_data.size) \/ IsDigitRaises(ai_data.inseam_length)

\* int(x) if x and x.isdigit() else None
DigitsOrNone(v) == IF JsonTruthy(v) /\ IsDigit(v) THEN ToInt(v) ELSE Null

\* the dictionary update_data built from the model's answer at time now
ai_update_data(ai_data, listing, now) ==
    [brand |-> ai_data.brand,
     size |-> ai_data.size,
     waist_size |-> DigitsOrNone(ai_data.size),
     inseam_length |-> DigitsOrNone(ai_data.inseam_length),
     style |-> ai_data.style,
     wash |-> ai_data.wash,
     era |-> ai_data.era,
     condition |-> IF JsonTruthy(ai_data.condition) THEN ai_data.condition
                   ELSE listing.condition,
     ai_tags |-> ai_data.tags,
     ai_summary |-> ai_data.summary,
     updated_at |-> now]

AiResult(status, error) == [status |-> status, error |-> error]

\* the listing another item of the same sync became
OtherListing ==
    [ParsedListing("etsy", "description", "vintage", None)
       EXCEPT !.external_id = "x2"]

\* an adapter has saved the listing, and another one next to it
EnrichIngest(listing) ==
    /\ apc = "idle"
    /\ listing_columns = {}
    /\ listing_columns' =
         {IngestedRow(1, listing, 1), IngestedRow(2, OtherListing, 1)}
    /\ UNCHANGED <<apc, aconfig, alisting, ai_answer, aupdate_data, aresult>>
    /\ UNCHANGED <<jobVars, saveVars, poolVars, trendVars, fetchVars,
                   routerVars,
                   redditVars, shopVars, blogVars>>

\* a later sync finds the listing again: save_listings_to_db updates the
\* row of the same (platform, external_id) with the parsed listing
EnrichResync(listing) ==
    /\ Now(listing_columns) <= MaxClock
    /\ \E x \in listing_columns :
         /\ x.platform = listing.platform
         /\ x.external_id = listing.external_id
         /\ listing_columns' =
              UpdateListing(listing_columns, x.id,
                            ResyncData(listing, Now(listing_columns)))
    /\ UNCHANGED <<apc, aconfig, alisting, ai_answer, aupdate_data, aresult>>
    /\ UNCHANGED <<jobVars, saveVars, poolVars, trendVars, fetchVars,
                   routerVars,
                   redditVars, shopVars, blogVars>>

\* the task starts: import openai, then the select of the listing returns,
\* then the statements up to the model call
AnalyzeListing(cfg) ==
    /\ apc = "idle"
    /\ aconfig' = cfg
    /\ LET rows == { x \in listing_columns : x.id = cfg.listing_id } IN
         IF ~cfg.openai
         THEN /\ aresult' = AiResult("raised", "ImportError")
              /\ apc' = "done"
              /\ UNCHANGED alisting
         ELSE IF rows = {}
         THEN /\ aresult' = AiResult("not_found", None)
              /\ apc' = "done"
              /\ UNCHANGED alisting
         ELSE \E listing \in rows :
                /\ alisting' = listing
                /\ IF ~Enabled(cfg.flag)
                   THEN /\ aresult' = AiResult("disabled", None)
                        /\ apc' = "done"
                   ELSE IF ~HasKey(cfg.api_key)
                   THEN /\ aresult' = AiResult("no_api_key", None)
                        /\ apc' = "done"
                   ELSE IF listing.description = None
                   THEN /\ aresult' = AiResult("failed", "TypeError")
                        /\ apc' = "done"
                   ELSE /\ apc' = "call"
                        /\ UNCHANGED aresult
    /\ UNCHANGED <<listing_columns, ai_answer, aupdate_data>>
    /\ UNCHANGED <<jobVars, saveVars, poolVars, trendVars, fetchVars,
                   routerVars,
                   redditVars, shopVars, blogVars>>

\* the task starts and the select of the listing raises
AnalyzeSelectRaise(cfg) ==
    /\ apc = "idle"
    /\ cfg.openai
    /\ aconfig' = cfg
    /\ aresult' = AiResult("failed", "Exception")
    /\ apc' = "done"
    /\ UNCHANGED <<listing_columns, alisting, ai_answer, aupdate_data>>
    /\ UNCHANGED <<jobVars, saveVars, poolVars, trendVars, fetchVars,
                   routerVars,
                   redditVars, shopVars, blogVars>>

\* openai.ChatCompletion.create raises, or its answer is not a JSON object
AnalyzeModelRaise ==
    /\ apc = "call"
    /\ aresult' = AiResult("failed", "Exception")
    /\ apc' = "done"
    /\ UNCHANGED <<listing_columns, aconfig, alisting, ai_answer,
                   aupdate_data>>
    /\ UNCHANGED <<jobVars, saveVars, poolVars, trendVars, fetchVars,
                   routerVars,
                   redditVars, shopVars, blogVars>>

\* the model answers ai_data; update_data is built, or building it raises
AnalyzeModelReturns(ai_data) ==
    /\ apc = "call"
    /\ ai_answer' = ai_data
    /\ IF UpdateDataRaises(ai_data)
       THEN /\ aresult' = AiResult("failed", "AttributeError")
            /\ apc' = "done"
            /\ UNCHANGED aupdate_data
       ELSE /\ aupdate_data' =
                 ai_update_data(ai_data, alisting, Now(listing_columns))
            /\ apc' = "update"
            /\ UNCHANGED aresult
    /\ UNCHANGED <<listing_columns, aconfig, alisting>>
    /\ UNCHANGED <<jobVars, saveVars, poolVars, trendVars, fetchVars,
                   routerVars,
                   redditVars, shopVars, blogVars>>

\* update(update_data).eq("id", listing_id) succeeds
AnalyzeUpdateOk ==
    /\ apc = "update"
    /\ listing_columns' =
         UpdateListing(listing_columns, aconfig.listing_id, aupdate_data)
    /\ aresult' = AiResult("completed", None)
    /\ apc' = "done"
    /\ UNCHANGED <<aconfig, alisting, ai_answer, aupdate_data>>
    /\ UNCHANGED <<jobVars, saveVars, poolVars, trendVars, fetchVars,
                   routerVars,
                   redditVars, shopVars, blogVars>>

\* the update raises
AnalyzeUpdateRaise ==
    /\ apc = "update"
    /\ aresult' = AiResult("failed", "Exception")
    /\ apc' = "done"
    /\ UNCHANGED <<listing_columns, aconfig, alisting, ai_answer,
                   aupdate_data>>
    /\ UNCHANGED <<jobVars, saveVars, poolVars, trendVars, fetchVars,
                   routerVars,
                   redditVars, shopVars, blogVars>>

NextEnrich ==
    \/ \E listing \in ParsedListings : EnrichIngest(listing)
    \/ \E listing \in ParsedListings : EnrichResync(listing)
    \/ \E cfg \in Configs : AnalyzeListing(cfg)
    \/ \E cfg \in Configs : AnalyzeSelectRaise(cfg)
    \/ AnalyzeModelRaise
    \/ \E ai_data \in AiData : AnalyzeModelReturns(ai_data)
    \/ AnalyzeUpdateOk
    \/ AnalyzeUpdateRaise

SpecEnrich == Init /\ [][NextEnrich]_vars

----------------------------------------------------------------------------
(* Reddit adapter: RedditService._calculate_engagement_score. Scores are     *)
(* kept in hundredths, the precision of round(x, 2).                         *)

Min(a, b) == IF a <= b THEN a ELSE b

\* the vote scores and comment counts of a submission
Scores == (0 - MaxDownvotes)..MaxScore
CommentCounts == 0..MaxComments

\* round(min(score / 100.0, 1.0) * 70 + min(num_comments / 50.0, 1.0) * 30, 2)
calculate_engagement_score(post) ==
    Min(70 * post.score, 7000) + Min(60 * post.num_comments, 3000)

\* _parse_reddit_post on a submission: the first time the post is seen, or
\* again after it has received one more vote or comment
ParseRedditPost(score, num_comments) ==
    /\ IF submission = NoStats THEN TRUE
       ELSE /\ score - submission.score \in {0 - 1, 0, 1}
            /\ num_comments - submission.num_comments \in {0, 1}
    /\ submission' = [score |-> score, num_comments |-> num_comments]
    /\ engagement' = calculate_engagement_score(submission')
    /\ UNCHANGED <<ptext, extracted>>
    /\ UNCHANGED <<coreVars, shopVars, blogVars>>

NextScore ==
    \E score \in Scores : \E num_comments \in CommentCounts :
       ParseRedditPost(score, num_comments)

SpecScore == Init /\ [][NextScore]_vars

----------------------------------------------------------------------------
(* Reddit adapter: RedditService._extract_price. A text is a sequence of     *)
(* characters, built from pieces; a price is kept as its digits.             *)

\* the pieces texts are built from
Pieces ==
    {<<"$">>, <<" ">>, <<"x">>, <<"1">>, <<"5">>, <<",", "2", "3", "4">>,
     <<".", "5", "6">>, <<".">>}

RECURSIVE Flatten(_)
Flatten(pieces) ==
    IF pieces = << >> THEN << >> ELSE Head(pieces) \o Flatten(Tail(pieces))

Digits == {"0", "1", "2", "3", "4", "5", "6", "7", "8", "9"}

DigitAt(t, i) == i <= Len(t) /\ t[i] \in Digits

\* \s* from position i: the position after the white space
RECURSIVE SkipSpaces(_, _)
SkipSpaces(t, i) ==
    IF i <= Len(t) /\ t[i] = " " THEN SkipSpaces(t, i + 1) ELSE i

\* \d{1,3} from position i: the position after the digits taken
LeadingDigits(t, i) ==
    IF DigitAt(t, i + 1)
    THEN IF DigitAt(t, i + 2) THEN i + 3 ELSE i + 2
    ELSE i + 1

\* (?:,\d{3})* from position i
RECURSIVE ThousandsGroups(_, _)
ThousandsGroups(t, i) ==
    IF /\ i <= Len(t) /\ t[i] = ","
       /\ DigitAt(t, i + 1) /\ DigitAt(t, i + 2) /\ DigitAt(t, i + 3)
    THEN ThousandsGroups(t, i + 4)
    ELSE i

\* (?:\.\d{2})? from position i
Decimals(t, i) ==
    IF i <= Len(t) /\ t[i] = "." /\ DigitAt(t, i + 1) /\ DigitAt(t, i + 2)
    THEN i + 3
    ELSE i

\* the pattern matches at the '$' of position i
MatchesAt(t, i) == t[i] = "$" /\ DigitAt(t, SkipSpaces(t, i + 1))

\* the group captured by the match at position i
Captured(t, i) ==
    LET from == SkipSpaces(t, i + 1)
        to == Decimals(t, ThousandsGroups(t, LeadingDigits(t, from)))
    IN SubSeq(t, from, to - 1)

\* mutant: the commas stay
RemoveCommas_Keep(str) == str

\* str.replace(",", "")
RemoveCommas(str) == SelectSeq(str, LAMBDA c : c # ",")

\* a number without its leading zeros
RECURSIVE StripZeros(_)
StripZeros(str) ==
    IF Len(str) > 1 /\ Head(str) = "0" THEN StripZeros(Tail(str)) ELSE str

\* float(str) of digits with at most one '.' followed by two digits: the
\* digits of the units and of the hundredths; NoStats where float raises
\* (the 'except' of _extract_price)
Float(str) ==
    IF str # << >> /\ \A i \in 1..Len(str) : str[i] \in Digits
    THEN [units |-> StripZeros(str), hundredths |-> <<"0", "0">>]
    ELSE IF /\ Len(str) >= 4 /\ str[Len(str) - 2] = "."
            /\ \A i \in 1..Len(str) : i # Len(str) - 2 => str[i] \in Digits
    THEN [units |-> StripZeros(SubSeq(str, 1, Len(str) - 3)),
          hundredths |-> SubSeq(str, Len(str) - 1, Len(str))]
    ELSE NoStats

\* re.findall(...)[0] when there is a match: the leftmost one
extract_price(t) ==
    LET matches == { i \in 1..Len(t) : MatchesAt(t, i) } IN
      IF matches = {} THEN NoStats
      ELSE LET first == CHOOSE i \in matches : \A j \in matches : i <= j
           IN Float(RemoveCommas(Captured(t, first)))

\* a piece is added to the text and the price is extracted
ExtractPrice(piece) ==
    /\ Len(ptext) < MaxPieces
    /\ ptext' = Append(ptext, piece)
    /\ extracted' = extract_price(Flatten(ptext'))
    /\ UNCHANGED <<submission, engagement>>
    /\ UNCHANGED <<coreVars, shopVars, blogVars>>

NextPrice == \E piece \in Pieces : ExtractPrice(piece)

SpecPrice == Init /\ [][NextPrice]_vars

----------------------------------------------------------------------------
(* The shop: research/routers/listing_router.py over the tables listings     *)
(* and sellers. create_listing and delete_listing take one step per store    *)
(* call, so that two requests can interleave; the other handlers are one     *)
(* step each.                                                                *)

SellerIds == {"s1", "s2", "admin"}

\* the bodies of update_listing: the fields set in ListingUpdate
ListingUpdates == [status : {"active", "sold"}]

\* a response: its status code and, of the rows in its body, whose they are
Reply(op, caller, listing_id, code, rows) ==
    [op |-> op, caller |-> caller, listing_id |-> listing_id, code |-> code,
     rows |-> { [id |-> l.id, seller_id |-> l.seller_id] : l \in rows }]

\* select("*").eq("id", listing_id)
ListingById(id) == { l \in shop_listings : l.id = id }

\* max(0, n - 1)
Decrement(n) == IF n - 1 > 0 THEN n - 1 ELSE 0

\* mutant: the role is not looked at
Authorized_Anyone(current_seller, listing) == TRUE

\* the authorization check of get, update and delete passes
Authorized(current_seller, listing) ==
    current_seller.role = "admin" \/ listing.seller_id = current_seller.id

\* the rows the query of list_listings selects
ListFilter(current_seller, seller_id) ==
    IF current_seller.role # "admin"
    THEN { l \in shop_listings : l.seller_id = current_seller.id }
    ELSE IF seller_id # None
    THEN { l \in shop_listings : l.seller_id = seller_id }
    ELSE shop_listings

\* create_listing: get_current_seller has read the caller's row
create_listing(q, c) ==
    /\ handler[q] = Idle
    /\ created < MaxListings
    /\ handler' = [handler EXCEPT ![q] =
                     [op |-> "create", pc |-> "insert",
                      current_seller |-> sellers[c]]]
    /\ UNCHANGED <<sellers, shop_listings, created, reply>>
    /\ UNCHANGED <<coreVars, redditVars, blogVars>>

\* create_listing: the insert into listings
CreateInsert(q) ==
    /\ handler[q].op = "create" /\ handler[q].pc = "insert"
    /\ created' = created + 1
    /\ LET new_listing ==
             [id |-> created', seller_id |-> handler[q].current_seller.id,
              status |-> "pending_approval", views |-> 0]
       IN /\ shop_listings' = shop_listings \cup {new_listing}
          /\ handler' = [handler EXCEPT ![q] =
                           [@ EXCEPT !.pc = "count"] @@
                             [listing |-> new_listing]]
    /\ UNCHANGED <<sellers, reply>>
    /\ UNCHANGED <<coreVars, redditVars, blogVars>>

\* create_listing: the update of the seller's total_listings, from the
\* value get_current_seller read
CreateCount(q) ==
    /\ handler[q].op = "create" /\ handler[q].pc = "count"
    /\ LET current_seller == handler[q].current_seller IN
         /\ sellers' = [sellers EXCEPT ![current_seller.id].total_listings =
                          current_seller.total_listings + 1]
         /\ reply' = Reply("create", current_seller.id,
                           handler[q].listing.id, 201, {handler[q].listing})
    /\ handler' = [handler EXCEPT ![q] = Idle]
    /\ UNCHANGED <<shop_listings, created>>
    /\ UNCHANGED <<coreVars, redditVars, blogVars>>

\* list_listings
list_listings(q, c, seller_id) ==
    /\ handler[q] = Idle
    /\ reply' = Reply("list", c, 0, 200, ListFilter(sellers[c], seller_id))
    /\ UNCHANGED <<sellers, shop_listings, created, handler>>
    /\ UNCHANGED <<coreVars, redditVars, blogVars>>

\* get_listing
get_listing(q, c, listing_id) ==
    /\ handler[q] = Idle
    /\ IF ListingById(listing_id) = {}
       THEN /\ reply' = Reply("get", c, listing_id, 404, {})
            /\ UNCHANGED shop_listings
       ELSE \E listing \in ListingById(listing_id) :
              IF ~Authorized(sellers[c], listing)
              THEN /\ reply' = Reply("get", c, listing_id, 403, {})
                   /\ UNCHANGED shop_listings
              ELSE /\ listing.views < MaxViews
                   /\ shop_listings' =
                        UpdateListing(shop_listings, listing_id,
                                      [views |-> listing.views + 1])
                   /\ reply' = Reply("get", c, listing_id, 200,
                                     {[listing EXCEPT !.views = @ + 1]})
    /\ UNCHANGED <<sellers, created, handler>>
    /\ UNCHANGED <<coreVars, redditVars, blogVars>>

\* update_listing
update_listing(q, c, listing_id, updates) ==
    /\ handler[q] = Idle
    /\ IF ListingById(listing_id) = {}
       THEN /\ reply' = Reply("update", c, listing_id, 404, {})
            /\ UNCHANGED shop_listings
       ELSE \E listing \in ListingById(listing_id) :
              IF ~Authorized(sellers[c], listing)
              THEN /\ reply' = Reply("update", c, listing_id, 403, {})
                   /\ UNCHANGED shop_listings
              ELSE /\ shop_listings' =
                        UpdateListing(shop_listings, listing_id, updates)
                   /\ reply' = Reply("update", c, listing_id, 200,
                                     ListingById(listing_id)')
    /\ UNCHANGED <<sellers, created, handler>>
    /\ UNCHANGED <<coreVars, redditVars, blogVars>>

\* delete_listing: the listing is fetched and the caller checked
delete_listing(q, c, listing_id) ==
    /\ handler[q] = Idle
    /\ IF ListingById(listing_id) = {}
       THEN /\ reply' = Reply("delete", c, listing_id, 404, {})
            /\ UNCHANGED handler
       ELSE \E listing \in ListingById(listing_id) :
              IF ~Authorized(sellers[c], listing)
              THEN /\ reply' = Reply("delete", c, listing_id, 403, {})
                   /\ UNCHANGED handler
              ELSE /\ handler' = [handler EXCEPT ![q] =
                                    [op |-> "delete", pc |-> "seller",
                                     current_seller |-> sellers[c],
                                     listing |-> listing]]
                   /\ UNCHANGED reply
    /\ UNCHANGED <<sellers, shop_listings, created>>
    /\ UNCHANGED <<coreVars, redditVars, blogVars>>

\* delete_listing: the seller of the listing is selected
DeleteSelectSeller(q) ==
    /\ handler[q].op = "delete" /\ handler[q].pc = "seller"
    /\ handler' = [handler EXCEPT ![q] =
                     [@ EXCEPT !.pc = "count"] @@
                       [seller |-> sellers[handler[q].listing.seller_id]]]
    /\ UNCHANGED <<sellers, shop_listings, created, reply>>
    /\ UNCHANGED <<coreVars, redditVars, blogVars>>

\* delete_listing: the seller's counters are written
DeleteCount(q) ==
    /\ handler[q].op = "delete" /\ handler[q].pc = "count"
    /\ LET seller == handler[q].seller
           listing == handler[q].listing
       IN sellers' =
            [sellers EXCEPT ![seller.id] =
               [@ EXCEPT !.total_listings = Decrement(seller.total_listings),
                         !.active_listings =
                            IF listing.status = "active"
                            THEN Decrement(seller.active_listings)
                            ELSE seller.active_listings]]
    /\ handler' = [handler EXCEPT ![q].pc = "row"]
    /\ UNCHANGED <<shop_listings, created, reply>>
    /\ UNCHANGED <<coreVars, redditVars, blogVars>>

\* delete_listing: the row is deleted
DeleteRow(q) ==
    /\ handler[q].op = "delete" /\ handler[q].pc = "row"
    /\ shop_listings' =
         { l \in shop_listings : l.id # handler[q].listing.id }
    /\ reply' = Reply("delete", handler[q].current_seller.id,
                      handler[q].listing.id, 204, {})
    /\ handler' = [handler EXCEPT ![q] = Idle]
    /\ UNCHANGED <<sellers, created>>
    /\ UNCHANGED <<coreVars, redditVars, blogVars>>

\* approve_listing, behind get_current_admin
approve_listing(q, c, listing_id) ==
    /\ handler[q] = Idle
    /\ IF sellers[c].role # "admin"
       THEN /\ reply' = Reply("approve", c, listing_id, 403, {})
            /\ UNCHANGED <<shop_listings, sellers>>
       ELSE IF ListingById(listing_id) = {}
       THEN /\ reply' = Reply("approve", c, listing_id, 404, {})
            /\ UNCHANGED <<shop_listings, sellers>>
       ELSE \E listing \in ListingById(listing_id) :
              /\ sellers[listing.seller_id].active_listings < MaxActive
              /\ shop_listings' =
                   UpdateListing(shop_listings, listing_id,
                                 [status |-> "active"])
              /\ sellers' =
                   [sellers EXCEPT ![listing.seller_id].active_listings =
                                      @ + 1]
              /\ reply' = Reply("approve", c, listing_id, 200,
                                ListingById(listing_id)')
    /\ UNCHANGED <<created, handler>>
    /\ UNCHANGED <<coreVars, redditVars, blogVars>>

\* reject_listing, behind get_current_admin
reject_listing(q, c, listing_id) ==
    /\ handler[q] = Idle
    /\ IF sellers[c].role # "admin"
       THEN /\ reply' = Reply("reject", c, listing_id, 403, {})
            /\ UNCHANGED shop_listings
       ELSE IF ListingById(listing_id) = {}
       THEN /\ reply' = Reply("reject", c, listing_id, 404, {})
            /\ UNCHANGED shop_listings
       ELSE /\ shop_listings' =
                 UpdateListing(shop_listings, listing_id,
                               [status |-> "rejected"])
            /\ reply' = Reply("reject", c, listing_id, 200,
                              ListingById(listing_id)')
    /\ UNCHANGED <<sellers, created, handler>>
    /\ UNCHANGED <<coreVars, redditVars, blogVars>>

\* the ids a request can name
ListingIds == 1..MaxListings

\* the callers of the requests that race
RaceCallers == {"s1", "admin"}

\* the body of update_listing that marks a listing sold
SoldUpdates == [status : {"sold"}]

\* the sellers who create listings
Creators == {"s1", "s2"}

\* the requests a seller makes, served one after the other
NextShop ==
    \/ \E c \in Creators : create_listing(1, c)
    \/ CreateInsert(1)
    \/ CreateCount(1)
    \/ \E c \in SellerIds : \E s \in SellerIds \cup {None} :
          list_listings(1, c, s)
    \/ \E c \in SellerIds : \E id \in ListingIds : get_listing(1, c, id)
    \/ \E c \in SellerIds : \E id \in ListingIds :
          \E updates \in SoldUpdates : update_listing(1, c, id, updates)
    \/ \E c \in SellerIds : \E id \in ListingIds : delete_listing(1, c, id)
    \/ DeleteSelectSeller(1)
    \/ DeleteCount(1)
    \/ DeleteRow(1)

SpecShop == Init /\ [][NextShop]_vars

\* the requests that change a status or a counter, served one after the other
NextModeration ==
    \/ \E c \in Creators : create_listing(1, c)
    \/ CreateInsert(1)
    \/ CreateCount(1)
    \/ \E c \in SellerIds : \E id \in ListingIds :
          \E updates \in ListingUpdates : update_listing(1, c, id, updates)
    \/ \E c \in SellerIds : \E id \in ListingIds : delete_listing(1, c, id)
    \/ DeleteSelectSeller(1)
    \/ DeleteCount(1)
    \/ DeleteRow(1)
    \/ \E c \in SellerIds : \E id \in ListingIds : approve_listing(1, c, id)
    \/ \E c \in SellerIds : \E id \in ListingIds : reject_listing(1, c, id)

SpecModeration == Init /\ [][NextModeration]_vars

\* create_listing and delete_listing requests served on two connections
NextShopRace ==
    \E q \in Connections :
       \/ \E c \in RaceCallers : create_listing(q, c)
       \/ CreateInsert(q)
       \/ CreateCount(q)
       \/ \E c \in RaceCallers : \E id \in ListingIds :
             delete_listing(q, c, id)
       \/ DeleteSelectSeller(q)
       \/ DeleteCount(q)
       \/ DeleteRow(q)

SpecShopRace == Init /\ [][NextShopRace]_vars

----------------------------------------------------------------------------
(* The blog: research/routers/blog_router.py over the table blog_posts.      *)
(* list_blog_posts and get_blog_post are public; the other endpoints sit     *)
(* behind get_current_admin.                                                 *)

Slugs == {"fit-guide", "care"}

BlogStatuses == {"draft", "published", "archived"}

\* the bodies of update_blog_post: the fields set in BlogPostUpdate
BlogPostUpdates == [status : BlogStatuses]

BlogCallers == {"s1", "admin"}

PostIds == 1..MaxPosts

BlogReply(op, code, rows) == [op |-> op, code |-> code, rows |-> rows]

\* select("*").eq("id", post_id)
PostById(post_id) == { p \in blog_posts : p.id = post_id }

\* the rows the query of list_blog_posts selects
Published == { p \in blog_posts : p.status = "published" }

\* list_blog_posts
list_blog_posts ==
    /\ blog_reply' = BlogReply("list", 200, Published)
    /\ UNCHANGED <<blog_posts, posted>>
    /\ UNCHANGED <<coreVars, redditVars, shopVars>>

\* get_blog_post
get_blog_post(slug) ==
    /\ IF { p \in blog_posts : p.slug = slug } = {}
       THEN /\ blog_reply' = BlogReply("get", 404, {})
            /\ UNCHANGED blog_posts
       ELSE \E post \in { p \in blog_posts : p.slug = slug } :
              /\ post.view_count < MaxViews
              /\ blog_posts' =
                   UpdateListing(blog_posts, post.id,
                                 [view_count |-> post.view_count + 1])
              /\ blog_reply' =
                   BlogReply("get", 200,
                             {[post EXCEPT !.view_count = @ + 1]})
    /\ UNCHANGED posted
    /\ UNCHANGED <<coreVars, redditVars, shopVars>>

\* create_blog_post
create_blog_post(c, slug) ==
    /\ posted < MaxPosts
    /\ IF sellers[c].role # "admin"
       THEN /\ blog_reply' = BlogReply("create", 403, {})
            /\ UNCHANGED <<blog_posts, posted>>
       ELSE IF { p \in blog_posts : p.slug = slug } # {}
       THEN /\ blog_reply' = BlogReply("create", 400, {})
            /\ UNCHANGED <<blog_posts, posted>>
       ELSE /\ posted' = posted + 1
            /\ LET new_post == [id |-> posted', slug |-> slug,
                                status |-> "draft", view_count |-> 0]
               IN /\ blog_posts' = blog_posts \cup {new_post}
                  /\ blog_reply' = BlogReply("create", 201, {new_post})
    /\ UNCHANGED <<coreVars, redditVars, shopVars>>

\* update_blog_post
update_blog_post(c, post_id, updates) ==
    /\ IF sellers[c].role # "admin"
       THEN /\ blog_reply' = BlogReply("update", 403, {})
            /\ UNCHANGED blog_posts
       ELSE IF PostById(post_id) = {}
       THEN /\ blog_reply' = BlogReply("update", 404, {})
            /\ UNCHANGED blog_posts
       ELSE /\ blog_posts' = UpdateListing(blog_posts, post_id, updates)
            /\ blog_reply' = BlogReply("update", 200, PostById(post_id)')
    /\ UNCHANGED posted
    /\ UNCHANGED <<coreVars, redditVars, shopVars>>

\* publish_blog_post
publish_blog_post(c, post_id) ==
    /\ IF sellers[c].role # "admin"
       THEN /\ blog_reply' = BlogReply("publish", 403, {})
            /\ UNCHANGED blog_posts
       ELSE IF PostById(post_id) = {}
       THEN /\ blog_reply' = BlogReply("publish", 404, {})
            /\ UNCHANGED blog_posts
       ELSE /\ blog_posts' = UpdateListing(blog_posts, post_id,
                                           [status |-> "published"])
            /\ blog_reply' = BlogReply("publish", 200, PostById(post_id)')
    /\ UNCHANGED posted
    /\ UNCHANGED <<coreVars, redditVars, shopVars>>

\* delete_blog_post
delete_blog_post(c, post_id) ==
    /\ IF sellers[c].role # "admin"
       THEN /\ blog_reply' = BlogReply("delete", 403, {})
            /\ UNCHANGED blog_posts
       ELSE IF PostById(post_id) = {}
       THEN /\ blog_reply' = BlogReply("delete", 404, {})
            /\ UNCHANGED blog_posts
       ELSE /\ blog_posts' = { p \in blog_posts : p.id # post_id }
            /\ blog_reply' = BlogReply("delete", 204, {})
    /\ UNCHANGED posted
    /\ UNCHANGED <<coreVars, redditVars, shopVars>>

NextBlog ==
    \/ list_blog_posts
    \/ \E slug \in Slugs : get_blog_post(slug)
    \/ \E c \in BlogCallers : \E slug \in Slugs : create_blog_post(c, slug)
    \/ \E c \in BlogCallers : \E id \in PostIds :
          \E updates \in BlogPostUpdates : update_blog_post(c, id, updates)
    \/ \E c \in BlogCallers : \E id \in PostIds : publish_blog_post(c, id)
    \/ \E c \in BlogCallers : \E id \in PostIds : delete_blog_post(c, id)

SpecBlog == Init /\ [][NextBlog]_vars

----------------------------------------------------------------------------
(* Properties of the upsert loop *)

KeyOf(l) == <<l.platform, l.external_id>>

RowsOfKey(k) == { r \in marketplace_listings : KeyOf(r) = k }

\* the keys run s saves, and the positions of its batch that carry key k
KeysOf(s) == { KeyOf(listings[s][i]) : i \in 1..Len(listings[s]) }

PositionsOf(s, k) == { i \in 1..Len(listings[s]) : KeyOf(listings[s][i]) = k }

Last(S) == CHOOSE i \in S : \A j \in S : j <= i

\* the payload of the last save of key k, run 1 having run before run 2
LastPayload(k) ==
    IF k \in KeysOf(2)
    THEN listings[2][Last(PositionsOf(2, k))].title
    ELSE listings[1][Last(PositionsOf(1, k))].title

BothReturned == \A s \in Runs : spc[s] = "done"

NoStoreFailure == \A s \in Runs : counts[s].errors = 0

\* C1: when the two runs save one after the other and no store call fails,
\* every saved key ends with exactly one row, that row carries the payload of
\* the last save of the key, the first save of a key is counted as added and
\* every later save of it as updated.
C1_IdempotentUpsert ==
    (BothReturned /\ NoStoreFailure) =>
        /\ \A k \in KeysOf(1) \cup KeysOf(2) :
              /\ Cardinality(RowsOfKey(k)) = 1
              /\ \A r \in RowsOfKey(k) : r.title = LastPayload(k)
        /\ counts[1].added = Cardinality(KeysOf(1))
        /\ counts[1].updated = Len(listings[1]) - Cardinality(KeysOf(1))
        /\ counts[2].added = Cardinality(KeysOf(2) \ KeysOf(1))
        /\ counts[2].updated =
              Len(listings[2]) - Cardinality(KeysOf(2) \ KeysOf(1))

\* both runs have saved the same key, the second one as an update
C1_Witness ==
    /\ BothReturned /\ NoStoreFailure
    /\ KeysOf(1) \cap KeysOf(2) # {}
    /\ counts[1].added >= 1
    /\ counts[2].updated >= 1

\* C2: at most one row per (platform, external_id), in every interleaving of
\* two runs.
C2_UniquePerKey ==
    \A r1 \in marketplace_listings : \A r2 \in marketplace_listings :
        KeyOf(r1) = KeyOf(r2) => r1.id = r2.id

\* C8: a store failure on one listing does not end the loop: while the loop
\* runs, every listing before the current one has been counted once, and when
\* sync_listings has returned the last listing has been reached and
\* added + updated + errors is the number of listings of the batch.
C8_BatchContinues ==
    \A s \in Runs :
        LET c == counts[s] IN
          /\ spc[s] \in {"select", "write"} =>
                c.added + c.updated + c.errors = sidx[s] - 1
          /\ spc[s] = "done" =>
                /\ c.added + c.updated + c.errors = Len(listings[s])
                /\ listings[s] # << >> => sidx[s] = Len(listings[s])
                /\ sresult[s].added = c.added
                /\ sresult[s].updated = c.updated
                /\ sresult[s].errors = c.errors
                /\ Get(sresult[s], FoundKey(splatform[s]), Null)
                       = Len(listings[s])

\* a run whose first listing failed and whose second listing was saved
C8_Witness ==
    \E s \in Runs :
        /\ spc[s] = "done"
        /\ Len(listings[s]) = 2
        /\ counts[s].errors = 1
        /\ \E r \in marketplace_listings : r.title = <<s, 2>>

----------------------------------------------------------------------------
(* Properties of the sync tasks and their job rows *)

Terminal == {"completed", "failed"}

JobById(table, id) == { r \in table : r.id = id }

\* C3: a job row is created in status 'running'; its status changes at most
\* once, from 'running' to 'completed' or 'failed'; a terminal row is never
\* written again, by any step of any task.
C3_StatusOnce ==
    [][ /\ \A n \in marketplace_sync_jobs' :
              JobById(marketplace_sync_jobs, n.id) = {} => n.status = "running"
        /\ \A r \in marketplace_sync_jobs :
              /\ Cardinality(JobById(marketplace_sync_jobs', r.id)) = 1
              /\ \A n \in JobById(marketplace_sync_jobs', r.id) :
                    /\ r.status \in Terminal => n = r
                    /\ r.status = "running" =>
                          n.status \in {"running"} \cup Terminal
      ]_vars

\* a failed row of one attempt next to the completed row of a later attempt
\* of the same task, and a row written by another task
C3_Witness ==
    \E r1 \in marketplace_sync_jobs : \E r2 \in marketplace_sync_jobs :
        /\ r1.celery_task_id = r2.celery_task_id
        /\ r1.status = "failed" /\ r2.status = "completed"
        /\ r1.attempt < r2.attempt
        /\ \E r3 \in marketplace_sync_jobs :
              r3.celery_task_id # r1.celery_task_id /\ r3.status \in Terminal

\* the attempt that inserted row r is still running
AttemptRunning(r) ==
    /\ pc[r.celery_task_id] \in {"sync", "except"}
    /\ job_id[r.celery_task_id] = r.id

\* C4: no job row is left in status 'running' once the attempt that created
\* it has ended.
C4_NoRunningAfterAttempt ==
    \A r \in marketplace_sync_jobs : r.status = "running" => AttemptRunning(r)

\* C5: an exception raised in the task body leads to the job being marked
\* 'failed' with the error message recorded and to a retry while retries
\* remain: a task ends in failure only with its retries used up and with the
\* row of its last attempt marked 'failed'.
C5_FailedAndRetried ==
    \A t \in Platforms :
        state[t] = "failure" =>
            /\ ~CanRetry(retries[t])
            /\ \E r \in JobsOf(t) :
                  /\ r.attempt = retries[t]
                  /\ r.status = "failed"
                  /\ r.error_message # NoExc

\* C6: at most max_retries + 1 attempts; when the last allowed attempt fails
\* the row of that attempt is 'failed' (and nothing is queued again).
C6_BoundedAttempts ==
    \A t \in Platforms :
        /\ retries[t] <= max_retries
        /\ \A r \in JobsOf(t) : r.attempt <= max_retries
        /\ (state[t] = "failure" /\ retries[t] = max_retries) =>
              \E r \in JobsOf(t) :
                  r.attempt = max_retries /\ r.status = "failed"

\* the rows recorded for the fan-out invocation itself
JobsOfFanOut == { r \in marketplace_sync_jobs : r.celery_task_id \notin Platforms }

\* C7 as stated: an invocation, its retries included, is recorded as exactly
\* one row. Stated on the invocations that are running or have succeeded.
C7_OneRowPerInvocation ==
    /\ \A t \in Platforms :
          state[t] \in {"started", "success"} => Cardinality(JobsOf(t)) = 1
    /\ pstate \in {"waiting", "success"} => Cardinality(JobsOfFanOut) = 1

\* the running attempt of t has inserted its row, or the last one had
InsertDone(t) ==
    \/ state[t] \in {"started", "success"}
    \/ state[t] = "failure" /\ exc[t] # "UnboundLocalError"

\* C7 as amended: one row per attempt of a per-platform task whose insert
\* succeeded (an invocation that retried has one row per attempt), and no row
\* for the fan-out task itself.
C7_OneRowPerAttempt ==
    /\ \A t \in Platforms : \A a \in 0..max_retries :
          Cardinality({ r \in JobsOf(t) : r.attempt = a }) =
              IF a < retries[t] \/ (a = retries[t] /\ InsertDone(t))
              THEN 1 ELSE 0
    /\ JobsOfFanOut = {}

\* a sub-task of a fan-out that has retried and holds two rows
C7_Witness ==
    \E t \in Platforms :
        /\ trigger[t] = "group"
        /\ state[t] = "success"
        /\ Cardinality(JobsOf(t)) = 2

----------------------------------------------------------------------------
(* Properties of the fan-out *)

Failed == { t \in Platforms : state[t] = "failure" }

Succeeded == { t \in Platforms : state[t] = "success" }

\* C9: a fan-out in which one sub-task fails and the other two succeed still
\* returns a combined result holding the two successful sub-results.
C9_PartialSuccess ==
    (/\ pstate \in {"success", "failure"}
     /\ Cardinality(Failed) = 1
     /\ Cardinality(Succeeded) = 2) =>
        /\ pstate = "success"
        /\ \A t \in Succeeded : Get(combined_stats, t, NoStats) = stats[t]

Sum3(f) == f["ebay"] + f["etsy"] + f["reddit"]

\* the value the combined result holds for a count
CombinedCount(k) ==
    IF k = "fetched"
    THEN Get(combined_stats, "total_listings", Null)
    ELSE Get(combined_stats, k, Null)

\* the value a sub-result holds for a count
SubCount(t, k) ==
    IF k = "fetched"
    THEN Get(stats[t], FoundKey(t), 0)
    ELSE Get(stats[t], k, 0)

\* C10 as stated: for each of added, updated, errors and fetched the combined
\* result holds the sum over the three sub-results.
C10_MergedCounts ==
    pstate = "success" =>
        \A k \in {"added", "updated", "errors", "fetched"} :
            CombinedCount(k) = Sum3([t \in Platforms |-> SubCount(t, k)])

\* C10 as amended: the combined result holds the three sub-results as they
\* were returned, under ebay, etsy and reddit, and one merged count,
\* total_listings, the number of listings the three syncs fetched (which is
\* the sum of their added, updated and errors counts); added, updated and
\* errors are not summed.
C10_CombinedResult ==
    pstate = "success" =>
        /\ DOMAIN combined_stats = {"ebay", "etsy", "reddit", "total_listings"}
        /\ \A t \in Platforms : combined_stats[t] = stats[t]
        /\ combined_stats.total_listings =
              Sum3([t \in Platforms |->
                      stats[t].added + stats[t].updated + stats[t].errors])

\* a fan-out that returned with listings fetched from Reddit and from eBay
C10_Witness ==
    /\ pstate = "success"
    /\ stats["reddit"].posts_found >= 1
    /\ stats["ebay"].listings_found >= 1

----------------------------------------------------------------------------
(* Properties of the worker pool *)

\* C11: on a pool of any size of at least one, the fan-out task waiting on
\* the join never keeps its sub-tasks from running: while it waits, a queued
\* sub-task finds a free pool process, or a process is running another
\* sub-task and will be free when that one ends.
C11_SubTasksGetWorker ==
    (workers >= 1 /\ pstate = "waiting") =>
        \A t \in Platforms :
            state[t] = "queued" =>
                (FreeWorker \/ \E u \in Platforms : state[u] = "started")

----------------------------------------------------------------------------
(* Properties of the trend aggregator *)

TrendRuns == {1, 2}

\* run r has read its window and returned
Returned(r) == tpc[r] = "done" /\ tend[r] # 0

\* the row holds every column of the record
RowHolds(x, record) == \A k \in DOMAIN record : x[k] = record[k]

ScopesOf(r) == { ScopeOf(tsaves[r][i]) : i \in DOMAIN tsaves[r] }

NoTrendStoreFailure == \A r \in TrendRuns : tlog[r] = 0

SameWindow == Returned(1) /\ Returned(2) /\ tend[1] = tend[2]

C13_EmptyWindowYieldsZeros ==
    \A r \in TrendRuns :
        (Returned(r) /\ twindow[r] = << >>) =>
            /\ tresult[r].status # "failed"
            /\ \E i \in DOMAIN tsaves[r] :
                  /\ tsaves[r][i].avg_price = Zero
                  /\ tsaves[r][i].min_price = 0
                  /\ tsaves[r][i].max_price = 0

\* C13 amended: a run whose window has no listings calculates and saves
\* nothing: it returns status 'no_data', which is not an error outcome, makes
\* no save call and leaves the trend table as it was.
C13_EmptyWindowNoData ==
    [][\A r \in TrendRuns :
          (tend'[r] # 0 /\ twindow'[r] = << >>) =>
              /\ tpc'[r] = "done"
              /\ tresult'[r] = [status |-> "no_data"]
              /\ tsaves'[r] = << >>
              /\ tlog'[r] = 0
              /\ tend[r] = 0 => marketplace_trends' = marketplace_trends]_vars

\* the second run found an empty window after the first run had saved rows
C13_Witness ==
    /\ Returned(2) /\ twindow[2] = << >>
    /\ tresult[2].status = "no_data"
    /\ marketplace_trends # {}

\* the listings a saved record is about
GroupOf(record, ls) ==
    IF record.category = "platform" THEN PlatformGroup(ls, record.platform)
    ELSE IF record.category = "overall" THEN ls
    ELSE BrandGroup(ls, record.category)

\* the prices of the listings of a group whose price is not null
NotNullPrices(group) ==
    LET priced == SelectSeq(group, LAMBDA l : l.price # Null)
    IN [i \in 1..Len(priced) |-> priced[i].price]

\* C14: every record the aggregator produces counts every listing of its
\* group, and its avg, min and max price are those of the listings of the
\* group whose price is not null, a price of 0 included; they are 0 when the
\* group has no priced listing.
C14_StatsOverPricedListings ==
    \A r \in TrendRuns : \A i \in DOMAIN tsaves[r] :
        LET g == GroupOf(tsaves[r][i], twindow[r])
            prices == NotNullPrices(g)
        IN /\ tsaves[r][i].total_listings = Len(g)
           /\ tsaves[r][i].avg_price =
                 (IF prices = << >> THEN Zero
                  ELSE Div(SumSeq(prices), Len(prices)))
           /\ tsaves[r][i].min_price = (IF prices = << >> THEN 0 ELSE MinOf(prices))
           /\ tsaves[r][i].max_price = (IF prices = << >> THEN 0 ELSE MaxOf(prices))

\* C15: a run over a window that has listings returns status 'completed',
\* whatever columns of the listings are null, and saves the overall record
\* of the window with every listing counted.
C15_NonEmptyWindowCompletes ==
    \A r \in TrendRuns :
        (Returned(r) /\ twindow[r] # << >>) =>
            /\ tresult[r].status = "completed"
            /\ \E i \in DOMAIN tsaves[r] :
                  /\ ScopeOf(tsaves[r][i]) =
                        <<"overall", "all", tend[r] - 1, tend[r]>>
                  /\ tsaves[r][i].total_listings = Len(twindow[r])

BrandNames == { ListingKinds[i].brand : i \in DOMAIN ListingKinds } \ {None}

\* C16 as stated: a per-platform row has the platform's name as its
\* category, a per-brand row has the brand as category and platform 'all',
\* the overall row has category 'overall' and platform 'all', and no row has
\* another category.
C16_CategoryIsPlatformName ==
    \A x \in marketplace_trends :
        \/ x.category \in Range(PlatformSeq)
        \/ x.category \in BrandNames /\ x.platform = "all"
        \/ x.category = "overall" /\ x.platform = "all"

\* C16 amended: a per-platform row has category 'platform' and the
\* platform's name as its platform, a per-brand row has the brand as
\* category and platform 'all', the overall row has category 'overall' and
\* platform 'all', and no row has another category.
C16_ScopedByKind ==
    \A x \in marketplace_trends :
        \/ x.category = "platform" /\ x.platform \in Range(PlatformSeq)
        \/ x.category \in BrandNames /\ x.platform = "all"
        \/ x.category = "overall" /\ x.platform = "all"

\* one run has written a row of each of the three kinds
C16_Witness ==
    /\ \E x \in marketplace_trends : x.category = "platform"
    /\ \E x \in marketplace_trends : x.category \in BrandNames
    /\ \E x \in marketplace_trends : x.category = "overall"

----------------------------------------------------------------------------
(* Properties of the fetch *)

WellFormed(items) == SelectSeq(items, LAMBDA x : ~x.malformed)

Malformed(items) == SelectSeq(items, LAMBDA x : x.malformed)

\* C17: when the vendor answers with a list of items, the fetch returns
\* every item that parses, in order, whatever items of the list fail to
\* parse, and the sync counts each item that failed to parse as an error.
C17_MalformedItemSkipped ==
    (fpc = "fetched" /\ response.failure = "none") =>
        /\ fetched = ParsedIds(WellFormed(response.items))
        /\ spc[1] = "done" =>
              sresult[1].errors >= Len(Malformed(response.items))

\* C18: when the vendor client fails, the fetch does not return a list and
\* the job row of the sync never gets status 'completed'.
C18_VendorFailureSurfaced ==
    (fpc = "fetched" /\ response.failure \in Failures) =>
        \A t \in Platforms : \A row \in JobsOf(t) : row.status # "completed"

----------------------------------------------------------------------------
(* Properties of trigger_sync *)

SyncPlatforms == {"ebay", "etsy", "reddit", "all"}

\* the step is a call of trigger_sync
Handled == requests' = requests + 1

\* the call sent exactly one message, for the task of platform p, and
\* returned its id while the message is still in the queue
EnqueuedOne(p) ==
    /\ Len(queue') = Len(queue) + 1
    /\ SubSeq(queue', 1, Len(queue)) = queue
    /\ queue'[Len(queue')] = [task |-> TaskOf(p), id |-> http'.task_id]
    /\ \A i \in 1..Len(queue) : queue[i].id # http'.task_id
    /\ http'.code = 200

\* C19 as stated: for a platform of {ebay, etsy, reddit, all} the call
\* enqueues exactly one task and returns its id; for any other name it
\* returns the validation error and enqueues nothing; it returns no other
\* error.
C19_OnlyValidationError ==
    [][Handled =>
          IF http'.requested \in SyncPlatforms
          THEN EnqueuedOne(http'.requested)
          ELSE http'.code = 400 /\ queue' = queue]_vars

\* C19 amended: for a name that is one of {ebay, etsy, reddit, all} once
\* lower-cased, the call either enqueues exactly one task and returns its
\* id, or, when the enqueue raises, returns a server error; for any other
\* name it returns the validation error; with either error nothing is
\* enqueued.
C19_TriggerOutcomes ==
    [][Handled =>
          IF Lower(http'.requested) \in SyncPlatforms
          THEN \/ EnqueuedOne(Lower(http'.requested))
               \/ http'.code = 500 /\ queue' = queue
          ELSE http'.code = 400 /\ queue' = queue]_vars

\* a call has returned a task id and its task waits in the queue behind the
\* task of an earlier call
C19_Witness ==
    /\ http # NoStats
    /\ http.code = 200
    /\ Len(queue) = 2
    /\ queue[2].id = http.task_id
    /\ queue[1].id # queue[2].id

----------------------------------------------------------------------------
(* Properties of the AI enrichment *)

\* the step ends a call that has read its listing
ReturnsAfterRead == apc # "done" /\ apc' = "done" /\ alisting' # NoStats

\* the step is the model call, or the reading of its answer, failing
ModelCallFails == apc = "call" /\ apc' = "done"

FlagOn(cfg) == Lower(Getenv(cfg.flag, "true")) = "true"

KeySet(cfg) == cfg.api_key \notin {None, ""}

AnswerRead == apc = "call" /\ ai_answer' # NoStats

\* a value the task can turn into a number: a string of digits or a number
NumericLooking(v) == v \in {"32", "34", "number:0", "number:32", "number:34"}

\* C21: whatever size and inseam_length the model returns (digit string,
\* non-digit string, JSON number, null), the task goes on to its update
\* instead of failing, and a value that is not numeric-looking leaves size,
\* waist_size and inseam_length null in what is written.
C21_NonNumericDiscarded ==
    [][AnswerRead =>
         /\ apc' = "update"
         /\ ~NumericLooking(ai_answer'.size) =>
              /\ aupdate_data'.size = None
              /\ aupdate_data'.waist_size = Null
         /\ ~NumericLooking(ai_answer'.inseam_length) =>
              aupdate_data'.inseam_length = Null]_vars

\* the step is the update of a successful enrichment
EnrichmentWrites ==
    apc = "update" /\ apc' = "done" /\ aresult'.status = "completed"

\* the step changes, in the row of listing_id, no column outside fields,
\* and changes no other row
ChangesOnly(fields) ==
    \A x \in listing_columns :
       \E y \in listing_columns' :
          /\ y.id = x.id
          /\ IF x.id = aconfig.listing_id
             THEN \A k \in DOMAIN x \ fields : y[k] = x[k]
             ELSE y = x

\* the columns of the fields the model is asked for
EnrichmentFields ==
    {"brand", "size", "inseam_length", "style", "wash", "era", "condition",
     "ai_tags", "ai_summary"}

\* C22 as stated: a successful enrichment changes only brand, size,
\* inseam_length, style, wash, era, condition, tags and summary of the
\* target listing, and no other row.
C22_OnlyEnrichmentFields ==
    [][EnrichmentWrites => ChangesOnly(EnrichmentFields)]_vars

\* C22 amended: a successful enrichment changes only brand, size,
\* waist_size, inseam_length, style, wash, era, condition, tags, summary
\* and updated_at of the target listing, and no other row.
C22_FrameWithDerived ==
    [][EnrichmentWrites =>
         ChangesOnly(EnrichmentFields \cup {"waist_size", "updated_at"})]_vars

\* an enrichment has completed and written a waist_size and a later
\* updated_at to its listing, next to a second listing
C22_Witness ==
    /\ apc = "done" /\ aresult.status = "completed"
    /\ \E x \in listing_columns :
         /\ x.id = aconfig.listing_id
         /\ x.waist_size = 32 /\ alisting.waist_size = Null
         /\ x.updated_at > alisting.updated_at
    /\ \E y \in listing_columns : y.id # aconfig.listing_id

\* the enrichment columns of row x are as the parsers set them
EnrichmentNull(x) ==
    /\ x.brand = None /\ x.size = None
    /\ x.waist_size = Null /\ x.inseam_length = Null
    /\ x.style = None /\ x.wash = None /\ x.era = None
    /\ x.ai_summary = None /\ x.ai_tags = << >>

\* C30: a sync that upserts an eBay or Etsy listing already in the table
\* leaves its brand, size, waist_size, inseam_length, style, wash, era and
\* ai_summary null and its ai_tags empty, whatever an enrichment had written.
C30_ResyncResetsEnrichment ==
    [][\A x \in listing_columns : \A y \in listing_columns' :
          (/\ y.id = x.id
           /\ y.last_synced_at # x.last_synced_at
           /\ y.platform \in {"ebay", "etsy"}) => EnrichmentNull(y)]_vars

\* an enrichment has completed on an Etsy listing and written a brand, and a
\* later sync has updated the row
C30_Witness ==
    /\ apc = "done" /\ aresult.status = "completed"
    /\ aupdate_data.brand = "Levi's" /\ aupdate_data.waist_size = 32
    /\ \E x \in listing_columns :
         /\ x.id = aconfig.listing_id
         /\ x.platform = "etsy"
         /\ x.last_synced_at > aupdate_data.updated_at
         /\ EnrichmentNull(x)

----------------------------------------------------------------------------
(* Properties of the Reddit adapter *)

\* C23: the engagement score of every submission is in [0, 100], and a
\* submission parsed again with no fewer votes and no fewer comments gets
\* no lower a score.
C23_EngagementInRangeMonotone ==
    [][/\ submission' # NoStats =>
             (0 <= engagement' /\ engagement' <= 10000)
       /\ (/\ submission # NoStats
           /\ submission'.score >= submission.score
           /\ submission'.num_comments >= submission.num_comments) =>
             engagement' >= engagement]_vars

\* the text has a piece at position k
PieceAt(k, piece) == k <= Len(ptext) /\ ptext[k] = piece

\* the first '$' of the text is at piece k
FirstDollar(k) == PieceAt(k, <<"$">>) /\ \A j \in 1..(k - 1) : ptext[j] # <<"$">>

\* the piece that follows the white space after piece k is a digit
NumberAfter(k) ==
    \E n \in (k + 1)..Len(ptext) :
       /\ ptext[n] \in {<<"1">>, <<"5">>}
       /\ \A j \in (k + 1)..(n - 1) : ptext[j] = <<" ">>

\* C24: a text whose first '$' is followed by an amount of one digit, the
\* thousands group ',234' and the decimals '.56' yields that amount with the
\* comma removed; without the thousands group it yields the digit and the
\* decimals; amounts further on do not count; a text in which no '$' is
\* followed by a number yields null.
C24_FirstAmountExtracted ==
    /\ \A k \in 1..Len(ptext) : \A d \in {"1", "5"} :
         (/\ FirstDollar(k)
          /\ PieceAt(k + 1, <<d>>)
          /\ PieceAt(k + 2, <<",", "2", "3", "4">>)
          /\ PieceAt(k + 3, <<".", "5", "6">>)) =>
            extracted = [units |-> <<d, "2", "3", "4">>,
                         hundredths |-> <<"5", "6">>]
    /\ \A k \in 1..Len(ptext) : \A d \in {"1", "5"} :
         (/\ FirstDollar(k)
          /\ PieceAt(k + 1, <<d>>)
          /\ PieceAt(k + 2, <<".", "5", "6">>)) =>
            extracted = [units |-> <<d>>, hundredths |-> <<"5", "6">>]
    /\ (\A k \in 1..Len(ptext) : PieceAt(k, <<"$">>) => ~NumberAfter(k)) =>
            extracted = NoStats

\* the text is '$1,234.56$': the amount written with a thousands separator
\* has been extracted
C24_Witness ==
    /\ ptext = << <<"$">>, <<"1">>, <<",", "2", "3", "4">>, <<".", "5", "6">>,
                  <<"$">> >>
    /\ extracted = [units |-> <<"1", "2", "3", "4">>,
                    hundredths |-> <<"5", "6">>]

----------------------------------------------------------------------------
(* Properties of the listing router *)

\* the step answers a request of a seller who is not an admin
AnswersSeller ==
    /\ handler'[1] = Idle
    /\ reply' # NoStats
    /\ sellers[reply'.caller].role # "admin"

\* the listing the answered request names exists and is someone else's
NamesForeignListing ==
    \E l \in shop_listings :
       l.id = reply'.listing_id /\ l.seller_id # reply'.caller

\* C25: through list_listings, get_listing, update_listing and
\* delete_listing a seller who is not an admin reads, modifies or deletes
\* only their own listings: a list holds only rows with their seller_id, and
\* a request that names someone else's listing is answered 403 with no row,
\* with the tables listings and sellers unchanged, view counters included.
C25_OwnListingsOnly ==
    [][ AnswersSeller =>
          /\ reply'.op = "list" =>
               /\ \A r \in reply'.rows : r.seller_id = reply'.caller
               /\ UNCHANGED <<shop_listings, sellers>>
          /\ (reply'.op \in {"get", "update", "delete"}
                /\ NamesForeignListing) =>
               /\ reply'.code = 403
               /\ reply'.rows = {}
               /\ UNCHANGED <<shop_listings, sellers>> ]_vars

\* s1 was refused the listing of s2, which its owner has viewed, and s1 has
\* a listing of their own
C25_Witness ==
    /\ reply # NoStats
    /\ reply.op = "get" /\ reply.caller = "s1" /\ reply.code = 403
    /\ \E l \in shop_listings :
          l.id = reply.listing_id /\ l.seller_id = "s2" /\ l.views = 1
    /\ \E l \in shop_listings : l.seller_id = "s1"


\* the listing l of the next state is not in the table now
Created(l) == \A k \in shop_listings : k.id # l.id

\* the listing l of the next state is active and was not active before
Activated(l) ==
    /\ l.status = "active"
    /\ \A k \in shop_listings : k.id = l.id => k.status # "active"

\* C26: a listing starts in status 'pending_approval' and gets status
\* 'active' only in a step of approve_listing called by an admin; no
\* create_listing or update_listing of a seller who is not an admin makes a
\* listing active.
C26_ActiveOnlyByApproval ==
    [][ \A l \in shop_listings' :
          /\ Created(l) => l.status = "pending_approval"
          /\ Activated(l) =>
               /\ reply'.op = "approve"
               /\ sellers[reply'.caller].role = "admin" ]_vars


\* the listings of seller s with the status st
ListingsOf(s, st) ==
    { l \in shop_listings : l.seller_id = s /\ l.status = st }

\* C27: between requests, each seller's active_listings is the number of
\* that seller's listings whose status is 'active'.
C27_ActiveCounterExact ==
    handler[1] = Idle =>
       \A s \in SellerIds :
          sellers[s].active_listings = Cardinality(ListingsOf(s, "active"))


\* no request is being served
Quiescent == \A q \in Connections : handler[q] = Idle

\* C28: when every create_listing and delete_listing request has been
\* served, however the requests interleaved, each seller's total_listings is
\* the number of rows of listings with that seller_id; so two concurrent
\* create_listing requests of one seller raise the counter by two.
C28_TotalCounterExact ==
    Quiescent =>
       \A s \in SellerIds :
          sellers[s].total_listings =
             Cardinality({ l \in shop_listings : l.seller_id = s })

----------------------------------------------------------------------------
(* Properties of the blog router *)

\* the step answers a request to a public endpoint
AnswersPublic ==
    /\ blog_reply' # NoStats
    /\ blog_reply'.op \in {"list", "get"}

\* C29: list_blog_posts and get_blog_post return only posts whose status is
\* 'published' and change no field of a post whose status is not
\* 'published', whatever create, update, publish and delete calls came
\* before.
C29_UnpublishedInvisible ==
    [][ AnswersPublic =>
          /\ \A p \in blog_reply'.rows : p.status = "published"
          /\ \A p \in blog_posts : p.status # "published" =>
                p \in blog_posts' ]_vars

====
